---- MODULE Spec2Model ----
(***************************************************************************)
(* Model of the MobileDroid agent execution engine:                        *)
(*   MobileDroidAgent.execute_task and its helpers (lib/agent/src/agent.py)*)
(*   Action.from_dict and ActionExecutor.execute (api/src/agent/actions.py)*)
(* and of the integration resolver:                                        *)
(*   IntegrationService.get_integration_config                             *)
(*   (api/src/services/integration_service.py)                             *)
(*                                                                         *)
(* Python strings are TLA+ strings, Python None is the value None, a       *)
(* Python dict is a function from its keys to its values.  A model         *)
(* response text is a sequence of tokens (fences, braces, prose,           *)
(* whitespace, and the body of a JSON object); the token "~~~" stands for   *)
(* a markdown code fence and "~~~json" for a fence tagged json.            *)
(***************************************************************************)
EXTENDS Integers, Sequences, FiniteSets, TLC

VARIABLES
    config,              \* AgentConfig of the agent plus the on_step argument
    pc,                  \* position of execute_task
    step_number,         \* loop variable of execute_task
    history,             \* self.history
    total_tokens,        \* self.total_tokens
    screenshot_history,  \* self.screenshot_history
    recovery_attempts,   \* self.recovery_attempts
    steps,               \* local list steps of execute_task
    state,               \* screenshot hash of the state sampled in this step
    action,              \* action about to be executed / just executed
    from_llm,            \* TRUE when action was chosen by the LLM in this step
    on_step_calls,       \* StepRecords handed to on_step so far
    llm_calls,           \* number of messages.create calls issued
    device_calls,        \* number of device commands issued by the executor
    is_stuck,            \* local is_stuck of execute_task
    response_text,       \* response_text of the last _get_action call
    raised,              \* the call whose exception ended the execution, or None
    returned,            \* the AgentResult returned, NoResult before that
    tasks,               \* the execute_task calls running on one agent object
    integrations,        \* table integrations (with the provider's key), by id
    config_cache,        \* self._config_cache, by purpose
    rpc,                 \* position of get_integration_config
    purpose,             \* argument purpose of get_integration_config
    integration,         \* argument integration of _build_config_with_fallback
    visited_ids,         \* visited_ids of _build_config_with_fallback
    decrypt_calls,       \* ids of the integrations handed to _decrypt_api_key
    resolved,            \* value returned by get_integration_config
    loaded,              \* the Integration object the resolver holds, NoRow if none
    queries,             \* statements executed by the running or last call
    cache_expires,       \* self._cache_expires, by purpose
    now,                 \* datetime.utcnow(), in minutes
    updates,             \* requests served by the settings router
    ex_pc,               \* position of ActionExecutor.execute
    ex_action,           \* the Action handed to ActionExecutor.execute
    screen,              \* screen_width and screen_height of the executor
    ex_log,              \* warnings logged and device calls made, in order
    profile,             \* the Profile row ProfileService.update works on
    pf_data,             \* the ProfileUpdate of the request
    pf_pc,               \* position of ProfileService.update
    pf_raised,           \* the exception ProfileService.update raised, if any
    proxy_applied,       \* calls of _apply_proxy_settings, by the proxy applied
    messages,            \* the ChatMessages persisted for the session
    task_status,         \* Task.status as committed in the database
    job_queued,          \* the arq job of the task waits in the queue
    qt_pc,               \* position of create_and_queue_task
    wk_pc,               \* position of the worker's execute_task
    cn_pc,               \* position of cancel_task
    agent_runs,          \* calls of agent.execute_task for the task
    cancels,             \* calls of cancel_task so far
    active_sessions,     \* the stream whose task is registered under the key
    stream_pc,           \* position of each streaming request
    stream_task,         \* state of the asyncio task of each stream
    stop_pc,             \* position of stop_chat
    stop_task            \* the task stop_chat cancelled and awaits

agent_vars == <<config, pc, step_number, history, total_tokens, screenshot_history,
          recovery_attempts, steps, state, action, from_llm, on_step_calls,
          llm_calls, device_calls, is_stuck, response_text, raised, returned>>
resolver_vars == <<integrations, config_cache, rpc, purpose, integration,
                   visited_ids, decrypt_calls, resolved, loaded, queries,
                   cache_expires, now, updates>>
executor_vars == <<ex_pc, ex_action, screen, ex_log>>
profile_vars == <<profile, pf_data, pf_pc, pf_raised, proxy_applied>>
chat_vars == <<messages>>
queue_vars == <<task_status, job_queued, qt_pc, wk_pc, cn_pc, agent_runs, cancels>>
session_vars == <<active_sessions, stream_pc, stream_task, stop_pc, stop_task>>
extra_vars == <<executor_vars, profile_vars, chat_vars, queue_vars, session_vars>>
other_vars == <<tasks, resolver_vars, extra_vars>>
vars == <<agent_vars, other_vars>>

-----------------------------------------------------------------------------
(* Bounds of the model *)

MaxStepsBound == 3
MaxThreshold == 3
MaxRecoveryBound == 3

None == "<None>"

Hashes == {"h1", "h2"}

Min(S) == CHOOSE x \in S : \A y \in S : x <= y
Max(S) == CHOOSE x \in S : \A y \in S : x >= y

-----------------------------------------------------------------------------
(* Python dict and string helpers *)

\* dict.get(key, default): the default only when the key is absent
Get(d, k, default) == IF k \in DOMAIN d THEN d[k] ELSE default

\* str.lower() on the action names that occur in the model
Lower(s) ==
    CASE s = "Tap" -> "tap"
      [] s = "DONE" -> "done"
      [] OTHER -> s

\* str.find(pattern, start) on a token sequence, 0-based, -1 when absent;
\* P is the set of tokens that contain the pattern
FindFrom(t, P, start) ==
    LET S == {i \in start..(Len(t) - 1) : t[i + 1] \in P}
    IN IF S = {} THEN -1 ELSE Min(S)

\* str.rfind(pattern)
RFind(t, P) ==
    LET S == {i \in 0..(Len(t) - 1) : t[i + 1] \in P}
    IN IF S = {} THEN -1 ELSE Max(S)

\* t[a:b]
Slice(t, a, b) == SubSeq(t, a + 1, b)

\* str.strip(): drop leading and trailing whitespace tokens
Strip(t) ==
    LET S == {i \in 1..Len(t) : t[i] # "ws"}
    IN IF S = {} THEN <<>> ELSE SubSeq(t, Min(S), Max(S))

-----------------------------------------------------------------------------
(* JSON texts *)

FenceJson == {"~~~json"}
FenceAny == {"~~~json", "~~~"}

\* the JSON object each body token stands for
Body ==
    [ tap       |-> [action |-> "Tap", x |-> "0.5", y |-> "0.4", reasoning |-> "tap it"],
      swipe     |-> [action |-> "swipe", x1 |-> "0.5", y1 |-> "0.8", x2 |-> "0.5", y2 |-> "0.2"],
      wait      |-> [action |-> "wait", reasoning |-> "loading"],
      done      |-> [action |-> "DONE", result |-> "finished"],
      done_bare |-> [action |-> "done"],
      fail      |-> [action |-> "fail", reason |-> "cannot continue"],
      fail_null |-> [action |-> "fail", reason |-> None],
      jump      |-> [action |-> "jump", x |-> "0.5"],
      nokind    |-> [reasoning |-> "thinking"] ]

BodyTokens == DOMAIN Body

JSONDecodeError == "Failed to parse LLM response: Expecting value"

\* json.loads: an object {body}, the empty object {}, or a scalar; anything
\* else raises JSONDecodeError.  Surrounding whitespace is accepted.
JsonLoads(text) ==
    LET t == Strip(text)
    IN IF Len(t) = 3 /\ t[1] = "{" /\ t[2] \in BodyTokens /\ t[3] = "}"
         THEN [ok |-> TRUE, is_dict |-> TRUE, value |-> Body[t[2]]]
       ELSE IF t = <<"{", "}">>
         THEN [ok |-> TRUE, is_dict |-> TRUE, value |-> <<>>]
       ELSE IF t = <<"42">>
         THEN [ok |-> TRUE, is_dict |-> FALSE, value |-> <<>>]
       ELSE [ok |-> FALSE, is_dict |-> FALSE, value |-> <<>>]

\* the text handed to json.loads: fence extraction, then brace extraction
ExtractJson(text0) ==
    LET text1 == Strip(text0)
        fenced(P) ==
            LET start == FindFrom(text1, P, 0) + 1
                end == FindFrom(text1, FenceAny, start)
            IN IF end > start THEN Strip(Slice(text1, start, end)) ELSE text1
        text2 == IF FindFrom(text1, FenceJson, 0) # -1 THEN fenced(FenceJson)
                 ELSE IF FindFrom(text1, FenceAny, 0) # -1 THEN fenced(FenceAny)
                 ELSE text1
        json_start == FindFrom(text2, {"{"}, 0)
        json_end == RFind(text2, {"}"}) + 1
    IN IF json_start # -1 /\ json_end > json_start
         THEN Slice(text2, json_start, json_end)
         ELSE text2

\* variant of ParseActionJson: the diagnostic is stored under the wrong key
ParseActionJson_WrongKey(text) ==
    LET r == JsonLoads(ExtractJson(text))
    IN IF r.ok THEN r
       ELSE [ok |-> TRUE, is_dict |-> TRUE,
             value |-> [action |-> "fail", error |-> JSONDecodeError]]

\* MobileDroidAgent._parse_action_json
ParseActionJson(text) ==
    LET r == JsonLoads(ExtractJson(text))
    IN IF r.ok THEN r
       ELSE [ok |-> TRUE, is_dict |-> TRUE,
             value |-> [action |-> "fail", reason |-> JSONDecodeError]]

-----------------------------------------------------------------------------
(* Action model *)

ActionType == {"tap", "double_tap", "swipe", "type", "back", "home",
               "enter", "wait", "done", "fail"}

NoAction == [type |-> None, params |-> <<>>, reasoning |-> ""]

\* Action.from_dict: raised is TRUE when ActionType(...) or data.get raises
FromDict(r) ==
    IF ~r.is_dict THEN [raised |-> TRUE, error |-> "'int' object has no attribute 'get'", action |-> NoAction]
    ELSE
    LET data == r.value
        raw == Get(data, "action", "")
    IN IF raw = None
         THEN [raised |-> TRUE, error |-> "'NoneType' object has no attribute 'lower'", action |-> NoAction]
       ELSE IF Lower(raw) \notin ActionType
         THEN [raised |-> TRUE, error |-> "'" \o Lower(raw) \o "' is not a valid ActionType", action |-> NoAction]
       ELSE
       LET action_type == Lower(raw)
           params ==
             CASE action_type = "tap" ->
                    [x |-> Get(data, "x", "0"), y |-> Get(data, "y", "0"),
                     duration |-> Get(data, "duration", None),
                     post_delay |-> Get(data, "post_delay", "300")]
               [] action_type = "double_tap" ->
                    [x |-> Get(data, "x", "0"), y |-> Get(data, "y", "0"),
                     delay |-> Get(data, "delay", "300"),
                     post_delay |-> Get(data, "post_delay", "800")]
               [] action_type = "swipe" ->
                    [x1 |-> Get(data, "x1", "0"), y1 |-> Get(data, "y1", "0"),
                     x2 |-> Get(data, "x2", "0"), y2 |-> Get(data, "y2", "0"),
                     duration |-> Get(data, "duration", "300")]
               [] action_type = "type" -> [text |-> Get(data, "text", "")]
               [] action_type = "wait" -> [duration |-> Get(data, "duration", "1000")]
               [] action_type = "done" -> [result |-> Get(data, "result", "")]
               [] action_type = "fail" -> [reason |-> Get(data, "reason", "")]
               [] OTHER -> <<>>
       IN [raised |-> FALSE, error |-> "",
           action |-> [type |-> action_type, params |-> params,
                       reasoning |-> Get(data, "reasoning", "")]]

\* the action kinds whose execution issues a command to the device
DeviceKinds == {"tap", "double_tap", "swipe", "type", "back", "home", "enter"}

\* ActionExecutor.execute: device_raises says whether the device command of
\* a device action raises; the exception is turned into an error result
ExecutorExecute(a, device_raises) ==
    IF a.type \in DeviceKinds /\ device_raises
      THEN [error |-> "device offline"]
    ELSE IF a.type = "done"
      THEN [completed |-> TRUE, result |-> Get(a.params, "result", None)]
    ELSE IF a.type = "fail"
      THEN [completed |-> TRUE, failed |-> TRUE, reason |-> Get(a.params, "reason", None)]
    ELSE IF a.type \in ActionType
      THEN [success |-> TRUE]
    ELSE [error |-> "Unknown action type"]

-----------------------------------------------------------------------------
(* Stuck detection and recovery *)

\* variant of CheckStuckState: a changed screen does not reset the counter
CheckStuckState_NoReset(window, screenshot_hash, attempts, cfg) ==
    LET appended == Append(window, screenshot_hash)
        threshold == cfg.stuck_detection_threshold
        kept == IF Len(appended) > threshold
                  THEN SubSeq(appended, Len(appended) - threshold + 1, Len(appended))
                  ELSE appended
        distinct == Cardinality({kept[i] : i \in 1..Len(kept)})
    IN IF Len(kept) < threshold
         THEN [window |-> kept, stuck |-> FALSE, attempts |-> attempts]
       ELSE IF distinct = 1
         THEN [window |-> kept,
               stuck |-> attempts < cfg.max_recovery_attempts,
               attempts |-> attempts]
       ELSE [window |-> kept, stuck |-> FALSE, attempts |-> attempts]

\* variant of CheckStuckState: the budget test admits one attempt too many
CheckStuckState_BudgetOffByOne(window, screenshot_hash, attempts, cfg) ==
    LET appended == Append(window, screenshot_hash)
        threshold == cfg.stuck_detection_threshold
        kept == IF Len(appended) > threshold
                  THEN SubSeq(appended, Len(appended) - threshold + 1, Len(appended))
                  ELSE appended
        distinct == Cardinality({kept[i] : i \in 1..Len(kept)})
    IN IF Len(kept) < threshold
         THEN [window |-> kept, stuck |-> FALSE, attempts |-> attempts]
       ELSE IF distinct = 1
         THEN [window |-> kept,
               stuck |-> attempts <= cfg.max_recovery_attempts,
               attempts |-> attempts]
       ELSE [window |-> kept, stuck |-> FALSE,
             attempts |-> IF distinct > 1 THEN 0 ELSE attempts]

\* MobileDroidAgent._check_stuck_state: the new window, the verdict and the
\* new value of recovery_attempts
CheckStuckState(window, screenshot_hash, attempts, cfg) ==
    LET appended == Append(window, screenshot_hash)
        threshold == cfg.stuck_detection_threshold
        kept == IF Len(appended) > threshold
                  THEN SubSeq(appended, Len(appended) - threshold + 1, Len(appended))
                  ELSE appended
        distinct == Cardinality({kept[i] : i \in 1..Len(kept)})
    IN IF Len(kept) < threshold
         THEN [window |-> kept, stuck |-> FALSE, attempts |-> attempts]
       ELSE IF distinct = 1
         THEN [window |-> kept,
               stuck |-> attempts < cfg.max_recovery_attempts,
               attempts |-> attempts]
       ELSE [window |-> kept, stuck |-> FALSE,
             attempts |-> IF distinct > 1 THEN 0 ELSE attempts]

RecoveryAction(type, params, reasoning) ==
    [type |-> type, params |-> params, reasoning |-> reasoning]

\* {**params, "duration": 1000}
WithDuration(params) ==
    [k \in DOMAIN params \cup {"duration"} |->
        IF k = "duration" THEN "1000" ELSE params[k]]

\* the default ladder at the end of _get_recovery_action
DefaultRecovery(attempts) ==
    IF attempts = 1
      THEN RecoveryAction("back", <<>>, "Recovery: Navigate back to unstick")
    ELSE IF attempts = 2
      THEN RecoveryAction("home", <<>>, "Recovery: Go to home screen to reset")
    ELSE NoAction

\* variant of GetRecoveryAction: a last swipe takes the default ladder
GetRecoveryAction_SwipeLadder(recorded, attempts) ==
    IF Len(recorded) > 0
      THEN LET last_action == recorded[Len(recorded)].action
           IN IF last_action.type = "tap"
                THEN IF attempts = 1
                       THEN RecoveryAction("tap", WithDuration(last_action.params),
                                           "Recovery: Long press instead of tap")
                     ELSE IF attempts = 2
                       THEN RecoveryAction("back", <<>>, "Recovery: Go back to reset state")
                     ELSE DefaultRecovery(attempts)
              ELSE DefaultRecovery(attempts)
      ELSE DefaultRecovery(attempts)

\* MobileDroidAgent._get_recovery_action, attempts being the value of
\* recovery_attempts after its increment; NoAction stands for None
GetRecoveryAction(recorded, attempts) ==
    IF Len(recorded) > 0
      THEN LET last_action == recorded[Len(recorded)].action
           IN IF last_action.type = "tap"
                THEN IF attempts = 1
                       THEN RecoveryAction("tap", WithDuration(last_action.params),
                                           "Recovery: Long press instead of tap")
                     ELSE IF attempts = 2
                       THEN RecoveryAction("back", <<>>, "Recovery: Go back to reset state")
                     ELSE DefaultRecovery(attempts)
              ELSE IF last_action.type = "swipe"
                THEN RecoveryAction("back", <<>>, "Recovery: Go back after stuck swipe")
              ELSE DefaultRecovery(attempts)
      ELSE DefaultRecovery(attempts)

-----------------------------------------------------------------------------
(* execute_task *)

\* the model's responses of the language model
Responses ==
    { <<"{", "tap", "}">>,
      <<"prose", "{", "swipe", "}", "prose">>,
      <<"ws", "{", "wait", "}", "ws">>,
      <<"prose", "~~~json", "ws", "{", "done", "}", "ws", "~~~">>,
      <<"~~~", "{", "done_bare", "}", "~~~">>,
      <<"{", "fail", "}">>,
      <<"{", "fail_null", "}">>,
      <<"prose">>,
      <<"~~~json", "{", "tap">>,
      <<"{", "jump", "}">>,
      <<"{", "nokind", "}">>,
      <<"42">> }

\* usage.input_tokens + usage.output_tokens of one response
TokensPerCall == 1

\* stands for None where an IntegrationConfig is expected
NoConfig ==
    [integration_id |-> None, api_key |-> None, fallback_integration_id |-> None]

\* stands for None where an Integration row is expected
NoRow ==
    [purpose |-> None, is_default |-> FALSE, active |-> FALSE, priority |-> 0,
     created_at |-> 0, api_key_encrypted |-> None,
     fallback_integration_id |-> None]

\* stands for a key that self._cache_expires does not hold
NoExpiry == -1

NoResult ==
    [success |-> FALSE, result |-> None, error |-> None, steps |-> <<>>,
     total_tokens |-> 0]

AgentStep(n, a, result, screenshot) ==
    [step_number |-> n, action |-> a, result |-> result, screenshot |-> screenshot]

\* _build_step_message, reduced to the parts that vary
BuildStepMessage(n, is_recovery, attempts) ==
    IF is_recovery
      THEN <<"Step " \o ToString(n), "recovery attempt #" \o ToString(attempts)>>
      ELSE <<"Step " \o ToString(n)>>

StepFailed(n, msg) == "Step " \o ToString(n) \o " failed: " \o msg
StuckError(n) ==
    "Task stuck after " \o ToString(n) \o " steps. No recovery strategy available."
\* variant of MaxStepsError: the message names the last index of the range
MaxStepsError_OffByOne(n) ==
    "Task did not complete within " \o ToString(n + 1) \o " steps"

MaxStepsError(n) == "Task did not complete within " \o ToString(n) \o " steps"

Configs ==
    [max_steps : 1..MaxStepsBound,
     stuck_detection_threshold : 1..MaxThreshold,
     max_recovery_attempts : 1..MaxRecoveryBound,
     on_step : BOOLEAN]

\* the fields of the agent after __init__, execute_task not yet called
AgentFresh ==
    /\ pc = "idle"
    /\ step_number = 0
    /\ history = <<>>
    /\ total_tokens = 0
    /\ screenshot_history = <<>>
    /\ recovery_attempts = 0
    /\ steps = <<>>
    /\ state = None
    /\ action = NoAction
    /\ from_llm = FALSE
    /\ on_step_calls = <<>>
    /\ llm_calls = 0
    /\ device_calls = 0
    /\ is_stuck = FALSE
    /\ response_text = <<>>
    /\ raised = None
    /\ returned = NoResult

AgentInit == config \in Configs /\ AgentFresh

\* the executions and the resolver of the specifications further below, idle
\* ActionExecutor.__init__, and no action handed to it
ExecutorIdle ==
    /\ ex_pc = "idle"
    /\ ex_action = <<>>
    /\ screen = [width |-> 1080, height |-> 2400]
    /\ ex_log = <<>>

\* no profile and no request
ProfileIdle ==
    /\ profile = <<>>
    /\ pf_data = <<>>
    /\ pf_pc = "idle"
    /\ pf_raised = None
    /\ proxy_applied = <<>>

\* the resolver of a process that resolves nothing
ResolverOff ==
    /\ integrations = <<>>
    /\ config_cache = <<>>
    /\ rpc = "idle"
    /\ purpose = None
    /\ integration = None
    /\ visited_ids = {}
    /\ decrypt_calls = <<>>
    /\ resolved = NoConfig
    /\ loaded = NoRow
    /\ queries = 0
    /\ cache_expires = <<>>
    /\ now = 0
    /\ updates = 0

\* a session without messages
ChatIdle == messages = <<>>

\* no task
QueueIdle ==
    /\ task_status = None
    /\ job_queued = FALSE
    /\ qt_pc = "idle"
    /\ wk_pc = "idle"
    /\ cn_pc = "idle"
    /\ agent_runs = 0
    /\ cancels = 0

\* no streaming request
SessionsIdle ==
    /\ active_sessions = None
    /\ stream_pc = <<>>
    /\ stream_task = <<>>
    /\ stop_pc = "idle"
    /\ stop_task = None

ExtraIdle == ExecutorIdle /\ ProfileIdle /\ ChatIdle /\ QueueIdle /\ SessionsIdle

OthersIdle ==
    /\ ExtraIdle
    /\ tasks = <<>>
    /\ integrations = <<>>
    /\ config_cache = <<>>
    /\ rpc = "idle"
    /\ purpose = None
    /\ integration = None
    /\ visited_ids = {}
    /\ decrypt_calls = <<>>
    /\ resolved = NoConfig
    /\ loaded = NoRow
    /\ queries = 0
    /\ cache_expires = <<>>
    /\ now = 0
    /\ updates = 0

Init == AgentInit /\ OthersIdle

\* return AgentResult(success, result, error, steps, total_tokens)
Return(success, result, error) ==
    /\ pc' = "returned"
    /\ returned' = [success |-> success, result |-> result, error |-> error,
                    steps |-> steps', total_tokens |-> total_tokens']

\* entry of execute_task
Start ==
    /\ pc = "idle"
    /\ UNCHANGED other_vars
    /\ UNCHANGED <<is_stuck, response_text, raised>>
    /\ history' = <<>>
    /\ total_tokens' = 0
    /\ screenshot_history' = <<>>
    /\ recovery_attempts' = 0
    /\ steps' = <<>>
    /\ step_number' = 1
    /\ pc' = "sample"
    /\ UNCHANGED <<config, state, action, from_llm, on_step_calls, llm_calls,
                   device_calls, returned>>

\* vision.get_state raises
GetStateRaises ==
    /\ pc = "sample"
    /\ UNCHANGED other_vars
    /\ raised' = "get_state"
    /\ UNCHANGED <<is_stuck, response_text>>
    /\ UNCHANGED <<config, step_number, history, total_tokens, screenshot_history,
                   recovery_attempts, steps, state, action, from_llm,
                   on_step_calls, llm_calls, device_calls>>
    /\ Return(FALSE, None, StepFailed(step_number, "device offline"))

\* variant of SampleNotStuck: the detector's reset of recovery_attempts is
\* not stored
SampleNotStuck_KeepAttempts ==
    /\ pc = "sample"
    /\ UNCHANGED other_vars
    /\ is_stuck' = FALSE
    /\ UNCHANGED <<response_text, raised>>
    /\ \E h \in Hashes :
         LET c == CheckStuckState(screenshot_history, h, recovery_attempts, config)
         IN /\ ~c.stuck
            /\ state' = h
            /\ screenshot_history' = c.window
            /\ recovery_attempts' = recovery_attempts
    /\ pc' = "llm"
    /\ UNCHANGED <<config, step_number, history, total_tokens, steps, action,
                   from_llm, on_step_calls, llm_calls, device_calls, returned>>

\* the state is sampled and the detector does not report stuck
SampleNotStuck ==
    /\ pc = "sample"
    /\ UNCHANGED other_vars
    /\ is_stuck' = FALSE
    /\ UNCHANGED <<response_text, raised>>
    /\ \E h \in Hashes :
         LET c == CheckStuckState(screenshot_history, h, recovery_attempts, config)
         IN /\ ~c.stuck
            /\ state' = h
            /\ screenshot_history' = c.window
            /\ recovery_attempts' = c.attempts
    /\ pc' = "llm"
    /\ UNCHANGED <<config, step_number, history, total_tokens, steps, action,
                   from_llm, on_step_calls, llm_calls, device_calls, returned>>

\* the detector reports stuck and _get_recovery_action returns an action
SampleStuckRecover ==
    /\ pc = "sample"
    /\ UNCHANGED other_vars
    /\ is_stuck' = TRUE
    /\ UNCHANGED <<response_text, raised>>
    /\ \E h \in Hashes :
         LET c == CheckStuckState(screenshot_history, h, recovery_attempts, config)
             recovery_action == GetRecoveryAction(steps, c.attempts + 1)
         IN /\ c.stuck
            /\ recovery_action # NoAction
            /\ state' = h
            /\ screenshot_history' = c.window
            /\ recovery_attempts' = c.attempts + 1
            /\ action' = recovery_action
    /\ from_llm' = FALSE
    /\ pc' = "execute"
    /\ UNCHANGED <<config, step_number, history, total_tokens, steps,
                   on_step_calls, llm_calls, device_calls, returned>>

\* the detector reports stuck and _get_recovery_action returns None
SampleStuckNoRecovery ==
    /\ pc = "sample"
    /\ UNCHANGED other_vars
    /\ is_stuck' = TRUE
    /\ UNCHANGED <<response_text, raised>>
    /\ \E h \in Hashes :
         LET c == CheckStuckState(screenshot_history, h, recovery_attempts, config)
             recovery_action == GetRecoveryAction(steps, c.attempts + 1)
         IN /\ c.stuck
            /\ recovery_action = NoAction
            /\ state' = h
            /\ screenshot_history' = c.window
            /\ recovery_attempts' = c.attempts + 1
    /\ UNCHANGED <<config, step_number, history, total_tokens, steps, action,
                   from_llm, on_step_calls, llm_calls, device_calls>>
    /\ Return(FALSE, None, StuckError(step_number))

\* variant of LLMCallRaises: the failed call is issued once more before
\* the execution gives up
LLMCallRaises_Retry ==
    /\ pc = "llm"
    /\ UNCHANGED other_vars
    /\ raised' = "llm"
    /\ llm_calls' = llm_calls + 2
    /\ UNCHANGED <<config, step_number, history, total_tokens, screenshot_history,
                   recovery_attempts, steps, state, action, from_llm,
                   on_step_calls, device_calls, is_stuck, response_text>>
    /\ pc' = "returned"
    /\ returned' = [success |-> FALSE, result |-> None,
                    error |-> "Step " \o ToString(step_number) \o " failed: Connection error.",
                    steps |-> steps, total_tokens |-> total_tokens]

\* messages.create raises in _get_action
LLMCallRaises ==
    /\ pc = "llm"
    /\ UNCHANGED other_vars
    /\ raised' = "llm"
    /\ UNCHANGED <<is_stuck, response_text>>
    /\ llm_calls' = llm_calls + 1
    /\ UNCHANGED <<config, step_number, history, total_tokens, screenshot_history,
                   recovery_attempts, steps, state, action, from_llm,
                   on_step_calls, device_calls>>
    /\ Return(FALSE, None, StepFailed(step_number, "Connection error."))

\* _get_action returns the action decoded from the response
LLMRespondsAction ==
    /\ pc = "llm"
    /\ UNCHANGED other_vars
    /\ UNCHANGED <<is_stuck, raised>>
    /\ \E text \in Responses :
         LET decoded == FromDict(ParseActionJson(text))
             user_content == BuildStepMessage(step_number, recovery_attempts > 0,
                                              recovery_attempts)
         IN /\ ~decoded.raised
            /\ response_text' = text
            /\ action' = decoded.action
            /\ history' = history \o <<[role |-> "user", content |-> user_content],
                                       [role |-> "assistant", content |-> text]>>
    /\ llm_calls' = llm_calls + 1
    /\ total_tokens' = total_tokens + TokensPerCall
    /\ from_llm' = TRUE
    /\ pc' = "execute"
    /\ UNCHANGED <<config, step_number, screenshot_history, recovery_attempts,
                   steps, state, on_step_calls, device_calls, returned>>

\* variant of LLMRespondsInvalid: the two turns are appended before the
\* response is decoded
LLMRespondsInvalid_Appends ==
    /\ pc = "llm"
    /\ UNCHANGED other_vars
    /\ raised' = "from_dict"
    /\ UNCHANGED <<is_stuck>>
    /\ llm_calls' = llm_calls + 1
    /\ total_tokens' = total_tokens + TokensPerCall
    /\ UNCHANGED <<config, step_number, screenshot_history,
                   recovery_attempts, steps, state, action, from_llm,
                   on_step_calls, device_calls>>
    /\ \E text \in Responses :
         LET decoded == FromDict(ParseActionJson(text))
             user_content == BuildStepMessage(step_number, recovery_attempts > 0,
                                              recovery_attempts)
         IN /\ decoded.raised
            /\ response_text' = text
            /\ history' = history \o <<[role |-> "user", content |-> user_content],
                                       [role |-> "assistant", content |-> text]>>
            /\ Return(FALSE, None, StepFailed(step_number, decoded.error))

\* Action.from_dict raises inside _get_action
LLMRespondsInvalid ==
    /\ pc = "llm"
    /\ UNCHANGED other_vars
    /\ raised' = "from_dict"
    /\ UNCHANGED <<is_stuck>>
    /\ llm_calls' = llm_calls + 1
    /\ total_tokens' = total_tokens + TokensPerCall
    /\ UNCHANGED <<config, step_number, history, screenshot_history,
                   recovery_attempts, steps, state, action, from_llm,
                   on_step_calls, device_calls>>
    /\ \E text \in Responses :
         LET decoded == FromDict(ParseActionJson(text))
         IN /\ decoded.raised
            /\ response_text' = text
            /\ Return(FALSE, None, StepFailed(step_number, decoded.error))

\* variant of ExecuteAction: the executor has no try/except, an exception of
\* the device reaches the handler of execute_task
ExecuteAction_NoCatch ==
    /\ pc = "execute"
    /\ UNCHANGED other_vars
    /\ UNCHANGED <<config, step_number, history, total_tokens, screenshot_history,
                   recovery_attempts, state, action, from_llm, on_step_calls,
                   llm_calls, is_stuck, response_text>>
    /\ device_calls' = IF action.type \in DeviceKinds THEN device_calls + 1
                       ELSE device_calls
    /\ \E device_raises \in BOOLEAN :
         /\ device_raises => action.type \in DeviceKinds
         /\ IF device_raises
              THEN /\ steps' = steps
                   /\ raised' = "execute"
                   /\ pc' = "returned"
                   /\ returned' = [success |-> FALSE, result |-> None,
                                   error |-> "Step " \o ToString(step_number) \o " failed: device offline",
                                   steps |-> steps, total_tokens |-> total_tokens]
              ELSE /\ steps' = Append(steps, AgentStep(step_number, action,
                                              ExecutorExecute(action, FALSE), state))
                   /\ raised' = raised
                   /\ pc' = "notify"
                   /\ returned' = returned

\* executor.execute(action) and steps.append(step)
ExecuteAction ==
    /\ pc = "execute"
    /\ UNCHANGED other_vars
    /\ UNCHANGED <<is_stuck, response_text, raised>>
    /\ \E device_raises \in BOOLEAN :
         /\ device_raises => action.type \in DeviceKinds
         /\ steps' = Append(steps, AgentStep(step_number, action,
                                    ExecutorExecute(action, device_raises), state))
    /\ device_calls' = IF action.type \in DeviceKinds THEN device_calls + 1
                       ELSE device_calls
    /\ pc' = "notify"
    /\ UNCHANGED <<config, step_number, history, total_tokens, screenshot_history,
                   recovery_attempts, state, action, from_llm, on_step_calls,
                   llm_calls, returned>>

Notified ==
    on_step_calls' = IF config.on_step THEN Append(on_step_calls, steps[Len(steps)])
                     ELSE on_step_calls

\* on_step(step) raises
OnStepRaises ==
    /\ pc = "notify"
    /\ UNCHANGED other_vars
    /\ raised' = "on_step"
    /\ UNCHANGED <<is_stuck, response_text>>
    /\ config.on_step
    /\ Notified
    /\ UNCHANGED <<config, step_number, history, total_tokens, screenshot_history,
                   recovery_attempts, steps, state, action, from_llm, llm_calls,
                   device_calls>>
    /\ Return(FALSE, None, StepFailed(step_number, "callback failed"))

\* the action chosen by the LLM is done
FinishDone ==
    /\ pc = "notify"
    /\ UNCHANGED other_vars
    /\ UNCHANGED <<is_stuck, response_text, raised>>
    /\ from_llm /\ action.type = "done"
    /\ Notified
    /\ UNCHANGED <<config, step_number, history, total_tokens, screenshot_history,
                   recovery_attempts, steps, state, action, from_llm, llm_calls,
                   device_calls>>
    /\ Return(TRUE, Get(action.params, "result", None), None)

\* the action chosen by the LLM is fail
FinishFail ==
    /\ pc = "notify"
    /\ UNCHANGED other_vars
    /\ UNCHANGED <<is_stuck, response_text, raised>>
    /\ from_llm /\ action.type = "fail"
    /\ Notified
    /\ UNCHANGED <<config, step_number, history, total_tokens, screenshot_history,
                   recovery_attempts, steps, state, action, from_llm, llm_calls,
                   device_calls>>
    /\ Return(FALSE, None, Get(action.params, "reason", None))

Continues == ~from_llm \/ action.type \notin {"done", "fail"}

\* variant of Sleep: after the last step the max-steps result is returned from
\* inside the loop body
Sleep_ReturnsAtLimit ==
    /\ pc = "notify"
    /\ UNCHANGED other_vars
    /\ Continues
    /\ Notified
    /\ UNCHANGED <<config, step_number, history, total_tokens, screenshot_history,
                   recovery_attempts, steps, state, action, from_llm, llm_calls,
                   device_calls, is_stuck, response_text, raised>>
    /\ IF step_number = config.max_steps
         THEN Return(FALSE, None, MaxStepsError(config.max_steps))
         ELSE pc' = "sleep" /\ returned' = returned

\* the recorded action does not end the task: on_step is called and the loop
\* body reaches asyncio.sleep(step_delay)
Sleep ==
    /\ pc = "notify"
    /\ UNCHANGED other_vars
    /\ Continues
    /\ Notified
    /\ pc' = "sleep"
    /\ UNCHANGED <<config, step_number, history, total_tokens, screenshot_history,
                   recovery_attempts, steps, state, action, from_llm, llm_calls,
                   device_calls, is_stuck, response_text, raised, returned>>

\* the sleep is over and the for statement starts the next iteration
NextStep ==
    /\ pc = "sleep"
    /\ UNCHANGED other_vars
    /\ step_number < config.max_steps
    /\ step_number' = step_number + 1
    /\ response_text' = <<>>
    /\ pc' = "sample"
    /\ UNCHANGED <<config, history, total_tokens, screenshot_history,
                   recovery_attempts, steps, state, action, from_llm,
                   on_step_calls, llm_calls, device_calls, is_stuck, raised,
                   returned>>

\* the sleep is over and the for statement is exhausted: max steps reached
MaxStepsReached ==
    /\ pc = "sleep"
    /\ UNCHANGED other_vars
    /\ step_number = config.max_steps
    /\ UNCHANGED <<config, step_number, history, total_tokens, screenshot_history,
                   recovery_attempts, steps, state, action, from_llm,
                   on_step_calls, llm_calls, device_calls, is_stuck,
                   response_text, raised>>
    /\ Return(FALSE, None, MaxStepsError(config.max_steps))

Next ==
    \/ Start
    \/ GetStateRaises
    \/ SampleNotStuck
    \/ SampleStuckRecover
    \/ SampleStuckNoRecovery
    \/ LLMCallRaises
    \/ LLMRespondsAction
    \/ LLMRespondsInvalid
    \/ ExecuteAction
    \/ OnStepRaises
    \/ FinishDone
    \/ FinishFail
    \/ Sleep
    \/ NextStep
    \/ MaxStepsReached

Spec == Init /\ [][Next]_vars

-----------------------------------------------------------------------------
(* execute_task run as an asyncio task that stop_chat may cancel *)

\* the positions at which execute_task is suspended in an await: get_state,
\* the LLM call, the executor's device command or delay, sleep(step_delay)
AwaitPoints == {"sample", "llm", "execute", "sleep"}

\* stop_chat: task.cancel() raises CancelledError at the await the task is
\* suspended in.  CancelledError is not an Exception, so neither the
\* executor's nor execute_task's handler catches it: the task ends without an
\* AgentResult.  A device command the executor had already handed to its
\* thread (issued) is still carried out; what follows it in the action (the
\* delay, the second tap of a double_tap, the StepRecord) is not.
Cancel ==
    /\ pc \in AwaitPoints
    /\ UNCHANGED other_vars
    /\ \E issued \in BOOLEAN :
         /\ issued => (pc = "execute" /\ action.type \in DeviceKinds)
         /\ device_calls' = IF issued THEN device_calls + 1 ELSE device_calls
    /\ raised' = "CancelledError"
    /\ pc' = "cancelled"
    /\ UNCHANGED <<config, step_number, history, total_tokens, screenshot_history,
                   recovery_attempts, steps, state, action, from_llm,
                   on_step_calls, llm_calls, is_stuck, response_text, returned>>

NextCancel ==
    \/ Start
    \/ GetStateRaises
    \/ SampleNotStuck
    \/ SampleStuckRecover
    \/ SampleStuckNoRecovery
    \/ LLMCallRaises
    \/ LLMRespondsAction
    \/ LLMRespondsInvalid
    \/ ExecuteAction
    \/ OnStepRaises
    \/ FinishDone
    \/ FinishFail
    \/ Sleep
    \/ NextStep
    \/ MaxStepsReached
    \/ Cancel

SpecCancel == Init /\ [][NextCancel]_vars

-----------------------------------------------------------------------------
(* two execute_task calls on one MobileDroidAgent object *)

\* The calls are told apart by their task prompt, which is part of every
\* user turn.  Both run with a stuck_detection_threshold above max_steps, so
\* the detector never reports stuck, with no on_step, and with an LLM whose
\* responses decode to device actions or done; what is modelled of the loop is
\* what reads or writes self.history and self.total_tokens, at the awaits
\* where another coroutine can run: get_state, the LLM call, the executor
\* and the sleep.
Tasks == {"t1", "t2"}
MaxSharedSteps == 2

IdleTask ==
    [pc |-> "idle", step_number |-> 0, messages |-> <<>>, calls |-> 0,
     result_total_tokens |-> None]

UserTurn(t, n) ==
    [role |-> "user", content |-> <<"Step " \o ToString(n), t>>, task |-> t]
AssistantTurn(t, n) ==
    [role |-> "assistant", content |-> <<"{", "tap", "}">>, task |-> t]

InitShared ==
    /\ config = [max_steps |-> MaxSharedSteps,
                 stuck_detection_threshold |-> MaxSharedSteps + 1,
                 max_recovery_attempts |-> 2, on_step |-> FALSE]
    /\ AgentFresh
    /\ tasks = [t \in Tasks |-> IdleTask]
    /\ ExtraIdle
    /\ integrations = <<>>
    /\ config_cache = <<>>
    /\ rpc = "idle"
    /\ purpose = None
    /\ integration = None
    /\ visited_ids = {}
    /\ decrypt_calls = <<>>
    /\ resolved = NoConfig
    /\ loaded = NoRow
    /\ queries = 0
    /\ cache_expires = <<>>
    /\ now = 0
    /\ updates = 0

SharedUnchanged ==
    UNCHANGED <<config, pc, step_number, steps, state, action, from_llm,
                on_step_calls, device_calls, is_stuck, response_text, raised,
                returned, resolver_vars, extra_vars>>

\* entry of execute_task for task t: the fields of the agent are reset
TaskStart(t) ==
    /\ tasks[t].pc = "idle"
    /\ history' = <<>>
    /\ total_tokens' = 0
    /\ screenshot_history' = <<>>
    /\ recovery_attempts' = 0
    /\ tasks' = [tasks EXCEPT ![t].pc = "step", ![t].step_number = 1]
    /\ UNCHANGED llm_calls
    /\ SharedUnchanged

\* _get_action up to its await: messages = [*self.history, user turn]
TaskRequest(t) ==
    /\ tasks[t].pc = "step"
    /\ tasks' = [tasks EXCEPT
                   ![t].pc = "await",
                   ![t].messages = history \o <<UserTurn(t, tasks[t].step_number)>>]
    /\ UNCHANGED <<history, total_tokens, screenshot_history, recovery_attempts,
                   llm_calls>>
    /\ SharedUnchanged

\* _get_action after its await: the tokens are counted, the two turns appended
TaskResponse(t) ==
    /\ tasks[t].pc = "await"
    /\ total_tokens' = total_tokens + TokensPerCall
    /\ history' = history \o <<UserTurn(t, tasks[t].step_number),
                               AssistantTurn(t, tasks[t].step_number)>>
    /\ llm_calls' = llm_calls + 1
    /\ tasks' = [tasks EXCEPT ![t].pc = "execute", ![t].calls = @ + 1]
    /\ UNCHANGED <<screenshot_history, recovery_attempts>>
    /\ SharedUnchanged

\* the action is executed; done, or the end of the range after the sleep,
\* returns AgentResult(..., total_tokens=self.total_tokens)
TaskFinish(t) ==
    /\ tasks[t].pc = "execute"
    /\ \E done \in BOOLEAN :
         IF done \/ tasks[t].step_number = config.max_steps
           THEN tasks' = [tasks EXCEPT ![t].pc = "returned",
                                       ![t].result_total_tokens = total_tokens]
           ELSE tasks' = [tasks EXCEPT ![t].pc = "step", ![t].step_number = @ + 1]
    /\ UNCHANGED <<history, total_tokens, screenshot_history, recovery_attempts,
                   llm_calls>>
    /\ SharedUnchanged

NextShared ==
    \E t \in Tasks :
        \/ TaskStart(t)
        \/ TaskRequest(t)
        \/ TaskResponse(t)
        \/ TaskFinish(t)

SpecShared == InitShared /\ [][NextShared]_vars

-----------------------------------------------------------------------------
(* _get_recovery_action applied to given steps and a given counter *)

MaxPlanSteps == 2

\* actions a recorded step can hold: decoded from a response, or issued by
\* an earlier recovery
PlanActions ==
    {FromDict([ok |-> TRUE, is_dict |-> TRUE, value |-> Body[b]]).action :
        b \in {"tap", "swipe", "wait", "done"}}
    \cup {RecoveryAction("tap", WithDuration([x |-> "0.5", y |-> "0.4"]),
                          "Recovery: Long press instead of tap"),
          RecoveryAction("back", <<>>, "Recovery: Navigate back to unstick"),
          RecoveryAction("home", <<>>, "Recovery: Go to home screen to reset")}

PlanSteps ==
    UNION {[1..n -> {AgentStep(1, a, ExecutorExecute(a, FALSE), "h1") : a \in PlanActions}] :
             n \in 0..MaxPlanSteps}

InitPlan ==
    /\ config \in Configs
    /\ pc = "plan"
    /\ step_number = 1
    /\ history = <<>>
    /\ total_tokens = 0
    /\ screenshot_history = <<>>
    /\ recovery_attempts \in 0..MaxRecoveryBound
    /\ steps \in PlanSteps
    /\ state = "h1"
    /\ action = NoAction
    /\ from_llm = FALSE
    /\ on_step_calls = <<>>
    /\ llm_calls = 0
    /\ device_calls = 0
    /\ is_stuck = TRUE
    /\ response_text = <<>>
    /\ raised = None
    /\ returned = NoResult
    /\ OthersIdle

\* recovery_action = await self._get_recovery_action(state, steps)
Plan ==
    /\ pc = "plan"
    /\ UNCHANGED other_vars
    /\ recovery_attempts' = recovery_attempts + 1
    /\ action' = GetRecoveryAction(steps, recovery_attempts + 1)
    /\ pc' = "planned"
    /\ UNCHANGED <<config, step_number, history, total_tokens, screenshot_history,
                   steps, state, from_llm, on_step_calls, llm_calls, device_calls,
                   is_stuck, response_text, raised, returned>>

SpecPlan == InitPlan /\ [][Plan]_vars

-----------------------------------------------------------------------------
(* IntegrationService.get_integration_config *)

IntegrationIds == {"A", "B", "C"}
Purposes == {"chat", "automation"}
MaxPriority == 2
MaxCreated == 2

\* values of llm_providers.api_key_encrypted: NULL, empty, a key
Keys == {None, "", "sk-1"}

\* rows that differ in what the two queries look at; each has a key
RankedRows ==
    [purpose : Purposes, is_default : BOOLEAN, active : BOOLEAN,
     priority : 1..MaxPriority, created_at : 1..MaxCreated,
     api_key_encrypted : {"sk-1"}, fallback_integration_id : {None}]

\* rows that differ in what the fallback chain looks at
ChainedRows ==
    [purpose : {"chat"}, is_default : {TRUE}, active : BOOLEAN,
     priority : {1}, created_at : {1},
     api_key_encrypted : Keys,
     fallback_integration_id : IntegrationIds \cup {None}]

Tables == [IntegrationIds -> RankedRows] \cup [IntegrationIds -> ChainedRows]

\* the defaults of the parameters of get_integration_config, which no caller
\* overrides
FallbackToDefault == TRUE
UseFallbackChain == TRUE

\* variant of Truthy: only None counts as missing
Truthy_NotNone(x) == x # None

\* Python truthiness of an optional string
Truthy(x) == x \notin {None, ""}

\* variant of PurposeQuery: the order is by priority ascending
PurposeQuery_LowestFirst(p) ==
    LET rows == {i \in DOMAIN integrations :
                    /\ integrations[i].purpose = p
                    /\ integrations[i].is_default
                    /\ integrations[i].active}
        Before(i, j) ==
            \/ integrations[i].priority < integrations[j].priority
            \/ /\ integrations[i].priority = integrations[j].priority
               /\ integrations[i].created_at <= integrations[j].created_at
    IN {i \in rows : \A j \in rows : Before(i, j)}

\* the rows the first query can return as its first row: purpose, default
\* and active, ordered by priority descending, then created_at ascending
PurposeQuery(p) ==
    LET rows == {i \in DOMAIN integrations :
                    /\ integrations[i].purpose = p
                    /\ integrations[i].is_default
                    /\ integrations[i].active}
        Before(i, j) ==
            \/ integrations[i].priority > integrations[j].priority
            \/ /\ integrations[i].priority = integrations[j].priority
               /\ integrations[i].created_at <= integrations[j].created_at
    IN {i \in rows : \A j \in rows : Before(i, j)}

\* the rows the second query can return as its first row: default and
\* active, ordered by priority descending
DefaultQuery ==
    LET rows == {i \in DOMAIN integrations :
                    integrations[i].is_default /\ integrations[i].active}
    IN {i \in rows : \A j \in rows :
            integrations[i].priority >= integrations[j].priority}

\* self._cache_ttl, in minutes
CacheTtl == 5

\* variant of IsCached: the expiry time is not consulted
IsCached_NeverExpires(cache_key) == config_cache[cache_key] # NoConfig

\* the value returned by _is_cached
IsCached(cache_key) ==
    /\ config_cache[cache_key] # NoConfig
    /\ cache_expires[cache_key] # NoExpiry
    /\ ~(now > cache_expires[cache_key])

\* the two dictionaries after _is_cached, which pops an expired entry
AfterIsCached(cache_key) ==
    IF /\ config_cache[cache_key] # NoConfig
       /\ cache_expires[cache_key] # NoExpiry
       /\ ~IsCached(cache_key)
      THEN [cache |-> [config_cache EXCEPT ![cache_key] = NoConfig],
            expires |-> [cache_expires EXCEPT ![cache_key] = NoExpiry]]
      ELSE [cache |-> config_cache, expires |-> cache_expires]

\* the IntegrationConfig built from the loaded row of integration i
IntegrationConfig(i, row) ==
    [integration_id |-> i,
     api_key |-> row.api_key_encrypted,
     fallback_integration_id |-> row.fallback_integration_id]

ResolverIdle ==
    /\ config_cache = [p \in Purposes |-> NoConfig]
    /\ rpc = "idle"
    /\ purpose = None
    /\ integration = None
    /\ visited_ids = {}
    /\ decrypt_calls = <<>>
    /\ resolved = NoConfig
    /\ loaded = NoRow
    /\ queries = 0
    /\ cache_expires = [p \in Purposes |-> NoExpiry]
    /\ now = 0
    /\ updates = 0

InitResolve ==
    /\ config = [max_steps |-> 1, stuck_detection_threshold |-> 1,
                 max_recovery_attempts |-> 1, on_step |-> FALSE]
    /\ AgentFresh
    /\ tasks = <<>>
    /\ integrations \in Tables
    /\ ResolverIdle
    /\ ExtraIdle

ResolverUnchanged ==
    UNCHANGED <<agent_vars, tasks, integrations, now, updates, extra_vars>>

\* get_integration_config(p) up to its return or to its call of
\* _build_config_with_fallback
GetIntegrationConfig(p) ==
    /\ rpc \in {"idle", "done"}
    /\ purpose' = p
    /\ visited_ids' = {}
    /\ decrypt_calls' = <<>>
    /\ config_cache' = AfterIsCached(p).cache
    /\ cache_expires' = AfterIsCached(p).expires
    /\ IF IsCached(p)
         THEN /\ resolved' = config_cache[p]
              /\ integration' = None
              /\ loaded' = NoRow
              /\ queries' = 0
              /\ rpc' = "done"
         ELSE LET first == PurposeQuery(p)
                  second == first = {} /\ FallbackToDefault
                  rows == IF second THEN DefaultQuery ELSE first
              IN /\ queries' = IF second THEN 2 ELSE 1
                 /\ IF rows = {}
                      THEN /\ resolved' = NoConfig
                           /\ integration' = None
                           /\ loaded' = NoRow
                           /\ rpc' = "done"
                      ELSE /\ resolved' = NoConfig
                           /\ integration' \in rows
                           /\ loaded' = integrations[integration']
                           /\ rpc' = "build"
    /\ ResolverUnchanged

\* the return of _build_config_with_fallback to get_integration_config,
\* which caches a configuration and returns what it got
ReturnConfig(built) ==
    /\ resolved' = built
    /\ config_cache' = IF built # NoConfig
                          THEN [config_cache EXCEPT ![purpose] = built]
                          ELSE config_cache
    /\ cache_expires' = IF built # NoConfig
                           THEN [cache_expires EXCEPT ![purpose] = now + CacheTtl]
                           ELSE cache_expires
    /\ rpc' = "done"
    /\ UNCHANGED <<integration, loaded, queries>>

\* variant of BuildConfigWithFallback: visited_ids is not consulted
BuildConfigWithFallback_NoVisited ==
    /\ rpc = "build"
    /\ UNCHANGED purpose
    /\ ResolverUnchanged
    /\ LET row == loaded
       IN /\ visited_ids' = visited_ids \cup {integration}
          /\ decrypt_calls' = Append(decrypt_calls, integration)
          /\ IF Truthy(row.api_key_encrypted)
               THEN ReturnConfig(IntegrationConfig(integration, row))
             ELSE IF /\ UseFallbackChain
                     /\ Truthy(row.fallback_integration_id)
                     /\ row.fallback_integration_id \in DOMAIN integrations
               THEN /\ integration' = row.fallback_integration_id
                    /\ loaded' = integrations[row.fallback_integration_id]
                    /\ queries' = queries + 1
                    /\ rpc' = "build"
                    /\ UNCHANGED <<resolved, config_cache, cache_expires>>
             ELSE ReturnConfig(NoConfig)

\* one call of _build_config_with_fallback, up to its return or to its
\* recursive call on the fallback integration
BuildConfigWithFallback ==
    /\ rpc = "build"
    /\ UNCHANGED purpose
    /\ ResolverUnchanged
    /\ LET row == loaded
       IN IF integration \in visited_ids
            THEN /\ UNCHANGED <<visited_ids, decrypt_calls>>
                 /\ ReturnConfig(NoConfig)
            ELSE /\ visited_ids' = visited_ids \cup {integration}
                 /\ decrypt_calls' = Append(decrypt_calls, integration)
                 /\ IF Truthy(row.api_key_encrypted)
                      THEN ReturnConfig(IntegrationConfig(integration, row))
                    ELSE IF /\ UseFallbackChain
                            /\ Truthy(row.fallback_integration_id)
                            /\ row.fallback_integration_id \in DOMAIN integrations
                      THEN /\ integration' = row.fallback_integration_id
                           /\ loaded' = integrations[row.fallback_integration_id]
                           /\ queries' = queries + 1
                           /\ rpc' = "build"
                           /\ UNCHANGED <<resolved, config_cache, cache_expires>>
                    ELSE ReturnConfig(NoConfig)

NextResolve ==
    \/ \E p \in Purposes : GetIntegrationConfig(p)
    \/ BuildConfigWithFallback

SpecResolve == InitResolve /\ [][NextResolve]_vars

-----------------------------------------------------------------------------
(* One resolver that lives across requests, the clock, and the settings
   router changing the rows the resolver reads *)

MaxClock == 6
MaxUpdates == 2

\* values of LLMProviderUpdate.api_key
UpdateKeys == {None, "", "sk-2"}

\* three default integrations for chat, each with a key and no fallback
InitCache ==
    /\ config = [max_steps |-> 1, stuck_detection_threshold |-> 1,
                 max_recovery_attempts |-> 1, on_step |-> FALSE]
    /\ AgentFresh
    /\ tasks = <<>>
    /\ integrations =
          [i \in IntegrationIds |->
              [purpose |-> "chat", is_default |-> TRUE, active |-> TRUE,
               priority |-> IF i = "A" THEN 2 ELSE 1, created_at |-> 1,
               api_key_encrypted |-> "sk-1", fallback_integration_id |-> None]]
    /\ ResolverIdle
    /\ ExtraIdle

SettingsUnchanged ==
    UNCHANGED <<agent_vars, tasks, config_cache, rpc, purpose, integration,
                visited_ids, decrypt_calls, resolved, loaded, queries,
                cache_expires, now, extra_vars>>

\* time passes by one minute
Tick ==
    /\ now < MaxClock
    /\ now' = now + 1
    /\ UNCHANGED <<agent_vars, tasks, integrations, config_cache, rpc, purpose,
                   integration, visited_ids, decrypt_calls, resolved, loaded,
                   queries, cache_expires, updates, extra_vars>>

\* PATCH /integrations/{i} with update.active set
UpdateIntegration(i, active) ==
    /\ updates < MaxUpdates
    /\ updates' = updates + 1
    /\ integrations' = [integrations EXCEPT ![i].active = active]
    /\ SettingsUnchanged

\* PATCH /providers/{id} for the provider of integration i
UpdateProvider(i, api_key) ==
    /\ updates < MaxUpdates
    /\ updates' = updates + 1
    /\ integrations' =
          IF api_key # None
            THEN [integrations EXCEPT
                    ![i].api_key_encrypted = IF api_key # "" THEN api_key ELSE None]
            ELSE integrations
    /\ SettingsUnchanged

NextCache ==
    \/ \E p \in Purposes : GetIntegrationConfig(p)
    \/ BuildConfigWithFallback
    \/ Tick
    \/ \E i \in IntegrationIds, active \in BOOLEAN : UpdateIntegration(i, active)
    \/ \E i \in IntegrationIds, api_key \in UpdateKeys : UpdateProvider(i, api_key)

SpecCache == InitCache /\ [][NextCache]_vars

-----------------------------------------------------------------------------
(* ActionExecutor: the conversion of the coordinates of tap, double_tap and
   swipe to pixels.  A float is a record: nan tells a NaN, v is the value
   in units of 1/Scale *)

Scale == 2
MaxCoord == 3

NaN == [nan |-> TRUE, v |-> 0]
Float(k) == [nan |-> FALSE, v |-> k]
Floats == {Float(k) : k \in -MaxCoord..MaxCoord} \cup {NaN}

\* the sizes set_screen_size is called with
ScreenSizes == {[width |-> 1080, height |-> 2400], [width |-> 720, height |-> 1280]}

\* Python's a < b and a > b on floats: False when either is a NaN
Lt(a, b) == ~a.nan /\ ~b.nan /\ a.v < b.v
Gt(a, b) == ~a.nan /\ ~b.nan /\ a.v > b.v

\* Python's min(a, b) and max(a, b): a unless b is smaller (larger)
PyMin(a, b) == IF Lt(b, a) THEN b ELSE a
PyMax(a, b) == IF Gt(b, a) THEN b ELSE a

\* max(0.0, min(1.0, p))
Clamp(p) == PyMax(Float(0), PyMin(Float(Scale), p))

\* the condition of the warning of _to_pixels
WarnsOutOfRange(x, y) ==
    Gt(x, Float(Scale)) \/ Gt(y, Float(Scale)) \/ Lt(x, Float(0)) \/ Lt(y, Float(0))

\* int(clamped * size) of a clamped value that is not a NaN
Pixel(clamped, size) == (clamped.v * size) \div Scale

Event(kind, call, x1, y1, x2, y2) ==
    [kind |-> kind, call |-> call, x1 |-> x1, y1 |-> y1, x2 |-> x2, y2 |-> y2]

\* what the n-th call of _to_pixels logs
ToPixelsLog(n, x, y) ==
    IF WarnsOutOfRange(x, y) THEN <<Event("warning", n, 0, 0, 0, 0)>> ELSE <<>>

\* the pixels _to_pixels returns
ToPixels(x, y) ==
    [x |-> Pixel(Clamp(x), screen.width), y |-> Pixel(Clamp(y), screen.height)]

ExecutorActions ==
    [type : {"tap", "double_tap"}, x1 : Floats, y1 : Floats,
     x2 : {Float(0)}, y2 : {Float(0)}, long : BOOLEAN]
      \cup [type : {"swipe"}, x1 : Floats, y1 : Floats,
            x2 : Floats, y2 : Floats, long : {FALSE}]

InitPixels ==
    /\ config = [max_steps |-> 1, stuck_detection_threshold |-> 1,
                 max_recovery_attempts |-> 1, on_step |-> FALSE]
    /\ AgentFresh
    /\ tasks = <<>>
    /\ ResolverOff
    /\ SessionsIdle
    /\ QueueIdle
    /\ ChatIdle
    /\ ProfileIdle
    /\ ex_pc = "ready"
    /\ ex_action \in ExecutorActions
    /\ screen = [width |-> 1080, height |-> 2400]
    /\ ex_log = <<>>

ExecutorUnchanged == UNCHANGED <<agent_vars, tasks, resolver_vars, profile_vars, chat_vars, queue_vars, session_vars>>

SetScreenSize(size) ==
    /\ ex_pc = "ready"
    /\ screen' = size
    /\ UNCHANGED <<ex_pc, ex_action, ex_log>>
    /\ ExecutorUnchanged

\* _tap: one shell command, a long press when duration > 500
Tap ==
    /\ ex_pc = "ready"
    /\ ex_action.type = "tap"
    /\ LET at == ToPixels(ex_action.x1, ex_action.y1)
       IN ex_log' = ex_log \o ToPixelsLog(1, ex_action.x1, ex_action.y1)
                      \o <<IF ex_action.long
                             THEN Event("long_press", 0, at.x, at.y, at.x, at.y)
                             ELSE Event("tap", 0, at.x, at.y, at.x, at.y)>>
    /\ ex_pc' = "done"
    /\ UNCHANGED <<ex_action, screen>>
    /\ ExecutorUnchanged

\* _double_tap: two shell commands at the same pixels
DoubleTap ==
    /\ ex_pc = "ready"
    /\ ex_action.type = "double_tap"
    /\ LET at == ToPixels(ex_action.x1, ex_action.y1)
       IN ex_log' = ex_log \o ToPixelsLog(1, ex_action.x1, ex_action.y1)
                      \o <<Event("tap", 0, at.x, at.y, at.x, at.y),
                           Event("tap", 0, at.x, at.y, at.x, at.y)>>
    /\ ex_pc' = "done"
    /\ UNCHANGED <<ex_action, screen>>
    /\ ExecutorUnchanged

\* _swipe: two conversions, then device.swipe
Swipe ==
    /\ ex_pc = "ready"
    /\ ex_action.type = "swipe"
    /\ LET from == ToPixels(ex_action.x1, ex_action.y1)
           to == ToPixels(ex_action.x2, ex_action.y2)
       IN ex_log' = ex_log \o ToPixelsLog(1, ex_action.x1, ex_action.y1)
                      \o ToPixelsLog(2, ex_action.x2, ex_action.y2)
                      \o <<Event("swipe", 0, from.x, from.y, to.x, to.y)>>
    /\ ex_pc' = "done"
    /\ UNCHANGED <<ex_action, screen>>
    /\ ExecutorUnchanged

NextPixels ==
    \/ \E size \in ScreenSizes : SetScreenSize(size)
    \/ Tap
    \/ DoubleTap
    \/ Swipe

SpecPixels == InitPixels /\ [][NextPixels]_vars

-----------------------------------------------------------------------------
(* ProfileService.update on one profile *)

MaxApplied == 2

ProfileStatuses == {"stopped", "starting", "running", "stopping", "error"}

\* the requests: each field is None or a new value; an empty
\* proxy_connector_id clears the connector
ProfileUpdates ==
    [name : {None, "n2"}, fingerprint : {None, "f2"}, proxy : {None, "p2"},
     proxy_connector_id : {None, "", "c2"}]

InitProfile ==
    /\ config = [max_steps |-> 1, stuck_detection_threshold |-> 1,
                 max_recovery_attempts |-> 1, on_step |-> FALSE]
    /\ AgentFresh
    /\ tasks = <<>>
    /\ ResolverOff
    /\ SessionsIdle
    /\ QueueIdle
    /\ ChatIdle
    /\ ExecutorIdle
    /\ profile \in [status : ProfileStatuses, name : {"n1"}, fingerprint : {"f1"},
                     proxy : {"p1"}, proxy_connector_id : {None, "c1"}]
    /\ pf_data \in ProfileUpdates
    /\ pf_pc = "ready"
    /\ pf_raised = None
    /\ proxy_applied = <<>>

ProfileUnchanged == UNCHANGED <<agent_vars, tasks, resolver_vars, executor_vars, chat_vars, queue_vars, session_vars>>

\* the profile after the four assignments of update
Applied(data) ==
    [status |-> profile.status,
     name |-> IF data.name # None THEN data.name ELSE profile.name,
     fingerprint |-> IF data.fingerprint # None
                       THEN data.fingerprint ELSE profile.fingerprint,
     proxy |-> IF data.proxy # None THEN data.proxy ELSE profile.proxy,
     proxy_connector_id |->
        IF data.proxy_connector_id = None THEN profile.proxy_connector_id
        ELSE IF data.proxy_connector_id # "" THEN data.proxy_connector_id
        ELSE None]

\* proxy_changed at the end of update
ProxyChanged(data) ==
    \/ data.proxy # None
    \/ /\ data.proxy_connector_id # None
       /\ Applied(data).proxy_connector_id # profile.proxy_connector_id

\* what _apply_proxy_settings applies: the connector if set, else the proxy
ProxyOf(row) ==
    IF row.proxy_connector_id # None THEN row.proxy_connector_id ELSE row.proxy

\* variant of Update: the check of the running profile comes after the
\* assignments
Update_CheckLast ==
    /\ pf_pc = "ready"
    /\ pf_pc' = "done"
    /\ profile' = Applied(pf_data)
    /\ IF /\ profile.status = "running"
          /\ (pf_data.name # None \/ pf_data.fingerprint # None)
         THEN pf_raised' = "ValueError" /\ UNCHANGED proxy_applied
         ELSE /\ pf_raised' = None
              /\ proxy_applied' =
                    IF profile.status = "running" /\ ProxyChanged(pf_data)
                      THEN Append(proxy_applied, ProxyOf(Applied(pf_data)))
                      ELSE proxy_applied
    /\ UNCHANGED pf_data
    /\ ProfileUnchanged

\* ProfileService.update
Update ==
    /\ pf_pc = "ready"
    /\ pf_pc' = "done"
    /\ IF /\ profile.status = "running"
          /\ (pf_data.name # None \/ pf_data.fingerprint # None)
         THEN /\ pf_raised' = "ValueError"
              /\ UNCHANGED <<profile, proxy_applied>>
         ELSE /\ pf_raised' = None
              /\ profile' = Applied(pf_data)
              /\ proxy_applied' =
                    IF profile.status = "running" /\ ProxyChanged(pf_data)
                      THEN Append(proxy_applied, ProxyOf(Applied(pf_data)))
                      ELSE proxy_applied
    /\ UNCHANGED pf_data
    /\ ProfileUnchanged

\* the next request arrives
NextRequest ==
    /\ pf_pc = "done"
    /\ Len(proxy_applied) < MaxApplied
    /\ pf_pc' = "ready"
    /\ pf_data' \in ProfileUpdates
    /\ pf_raised' = None
    /\ UNCHANGED <<profile, proxy_applied>>
    /\ ProfileUnchanged

NextProfile == Update \/ NextRequest

SpecProfile == InitProfile /\ [][NextProfile]_vars

-----------------------------------------------------------------------------
(* The worker's execute_task and the chat endpoint around one execution of
   the agent: both pass an async function as on_step *)

\* on_step_calls holds the steps on_step was called with.  Each call only
\* returns a coroutine object; the agent awaits none of them, so the body of
\* on_step, which saves a STEP message, is never run and no action of the
\* agent changes messages

InitChat ==
    /\ config \in Configs
    /\ config.on_step
    /\ AgentFresh
    /\ OthersIdle

\* the completion message saved after execute_task has returned
SaveCompletion ==
    /\ pc = "returned"
    /\ \A i \in 1..Len(messages) : messages[i].role # "assistant"
    /\ messages' = Append(messages, [role |-> "assistant", step_number |-> 0])
    /\ UNCHANGED <<agent_vars, tasks, resolver_vars, executor_vars, profile_vars,
                   queue_vars, session_vars>>

\* calling an async function raises nothing: OnStepRaises is left out
NextChat ==
    \/ Start
    \/ GetStateRaises
    \/ SampleNotStuck
    \/ SampleStuckRecover
    \/ SampleStuckNoRecovery
    \/ LLMCallRaises
    \/ LLMRespondsAction
    \/ LLMRespondsInvalid
    \/ ExecuteAction
    \/ FinishDone
    \/ FinishFail
    \/ Sleep
    \/ NextStep
    \/ MaxStepsReached
    \/ SaveCompletion

SpecChat == InitChat /\ [][NextChat]_vars

-----------------------------------------------------------------------------
(* One task of the queue: the worker's execute_task and
   TaskQueueService.cancel_task, each with its own database session *)

MaxCancels == 2

Cancellable == {"pending", "scheduled", "queued"}

\* a task that create_task has committed
InitQueue ==
    /\ config = [max_steps |-> 1, stuck_detection_threshold |-> 1,
                 max_recovery_attempts |-> 1, on_step |-> FALSE]
    /\ AgentFresh
    /\ tasks = <<>>
    /\ ResolverOff
    /\ SessionsIdle
    /\ ExecutorIdle
    /\ ProfileIdle
    /\ ChatIdle
    /\ task_status \in {"pending", "scheduled"}
    /\ job_queued = FALSE
    /\ qt_pc = "created"
    /\ wk_pc = "waiting"
    /\ cn_pc = "idle"
    /\ agent_runs = 0
    /\ cancels = 0

QueueUnchanged ==
    UNCHANGED <<agent_vars, tasks, resolver_vars, executor_vars, profile_vars,
                chat_vars, session_vars>>

\* queue_task enqueues the job
QueueEnqueue ==
    /\ qt_pc = "created"
    /\ job_queued' = TRUE
    /\ qt_pc' = "enqueued"
    /\ UNCHANGED <<task_status, wk_pc, cn_pc, agent_runs, cancels>>
    /\ QueueUnchanged

\* queue_task commits status QUEUED and the job id
QueueCommit ==
    /\ qt_pc = "enqueued"
    /\ task_status' = "queued"
    /\ qt_pc' = "done"
    /\ UNCHANGED <<job_queued, wk_pc, cn_pc, agent_runs, cancels>>
    /\ QueueUnchanged

\* the worker takes the job and selects the task
WorkerSelect ==
    /\ wk_pc = "waiting" /\ job_queued
    /\ job_queued' = FALSE
    /\ wk_pc' = IF task_status = "cancelled" THEN "skipped" ELSE "selected"
    /\ UNCHANGED <<task_status, qt_pc, cn_pc, agent_runs, cancels>>
    /\ QueueUnchanged

\* the worker commits status RUNNING
WorkerMarkRunning ==
    /\ wk_pc = "selected"
    /\ task_status' = "running"
    /\ wk_pc' = "running"
    /\ UNCHANGED <<job_queued, qt_pc, cn_pc, agent_runs, cancels>>
    /\ QueueUnchanged

\* the preparation raises (no profile, no integration): status FAILED
WorkerFails ==
    /\ wk_pc = "running"
    /\ task_status' = "failed"
    /\ wk_pc' = "done"
    /\ UNCHANGED <<job_queued, qt_pc, cn_pc, agent_runs, cancels>>
    /\ QueueUnchanged

\* the worker connects the agent and calls agent.execute_task
WorkerRunsAgent ==
    /\ wk_pc = "running"
    /\ agent_runs' = agent_runs + 1
    /\ wk_pc' = "agent"
    /\ UNCHANGED <<task_status, job_queued, qt_pc, cn_pc, cancels>>
    /\ QueueUnchanged

\* the agent has returned or raised: the worker commits the final status
WorkerFinish(status) ==
    /\ wk_pc = "agent"
    /\ task_status' = status
    /\ wk_pc' = "done"
    /\ UNCHANGED <<job_queued, qt_pc, cn_pc, agent_runs, cancels>>
    /\ QueueUnchanged

\* cancel_task selects the task and returns it unchanged unless it is
\* pending, scheduled or queued; it aborts the job if the task has a job id
CancelSelect ==
    /\ cn_pc = "idle" /\ cancels < MaxCancels
    /\ cancels' = cancels + 1
    /\ cn_pc' = IF task_status \notin Cancellable THEN "idle"
               ELSE IF qt_pc = "done" THEN "abort"
               ELSE "write"
    /\ UNCHANGED <<task_status, job_queued, qt_pc, wk_pc, agent_runs>>
    /\ QueueUnchanged

\* pool.abort_job: the queue drops a job that no worker has taken, or the
\* call fails and is logged
CancelAbort(dropped) ==
    /\ cn_pc = "abort"
    /\ job_queued' = IF dropped THEN FALSE ELSE job_queued
    /\ cn_pc' = "write"
    /\ UNCHANGED <<task_status, qt_pc, wk_pc, agent_runs, cancels>>
    /\ QueueUnchanged

\* cancel_task commits status CANCELLED
CancelWrite ==
    /\ cn_pc = "write"
    /\ task_status' = "cancelled"
    /\ cn_pc' = "idle"
    /\ UNCHANGED <<job_queued, qt_pc, wk_pc, agent_runs, cancels>>
    /\ QueueUnchanged

NextQueue ==
    \/ QueueEnqueue
    \/ QueueCommit
    \/ WorkerSelect
    \/ WorkerMarkRunning
    \/ WorkerFails
    \/ WorkerRunsAgent
    \/ \E status \in {"completed", "failed"} : WorkerFinish(status)
    \/ CancelSelect
    \/ \E dropped \in BOOLEAN : CancelAbort(dropped)
    \/ CancelWrite

SpecQueue == InitQueue /\ [][NextQueue]_vars

-----------------------------------------------------------------------------
(* The streaming chat endpoint for one profile: active_sessions holds one
   entry under the profile's session key *)

StreamIds == {"s1", "s2"}

InitSessions ==
    /\ config = [max_steps |-> 1, stuck_detection_threshold |-> 1,
                 max_recovery_attempts |-> 1, on_step |-> FALSE]
    /\ AgentFresh
    /\ tasks = <<>>
    /\ ResolverOff
    /\ ExecutorIdle
    /\ ProfileIdle
    /\ ChatIdle
    /\ QueueIdle
    /\ active_sessions = None
    /\ stream_pc = [s \in StreamIds |-> "idle"]
    /\ stream_task = [s \in StreamIds |-> "none"]
    /\ stop_pc = "idle"
    /\ stop_task = None

SessionsUnchanged ==
    UNCHANGED <<agent_vars, tasks, resolver_vars, executor_vars, profile_vars,
                chat_vars, queue_vars>>

\* task.cancel() on the task registered under the key, if it is not done
CancelRegistered ==
    IF active_sessions # None /\ stream_task[active_sessions] = "running"
      THEN [stream_task EXCEPT ![active_sessions] = "cancelled"]
      ELSE stream_task

\* chat_with_profile_stream up to its return: an entry under the key is
\* cancelled and deleted
StreamStart(s) ==
    /\ stream_pc[s] = "idle"
    /\ stream_task' = CancelRegistered
    /\ active_sessions' = None
    /\ stream_pc' = [stream_pc EXCEPT ![s] = "setup"]
    /\ UNCHANGED <<stop_pc, stop_task>>
    /\ SessionsUnchanged

\* the generator creates the task and registers it
StreamRegister(s) ==
    /\ stream_pc[s] = "setup"
    /\ stream_task' = [stream_task EXCEPT ![s] = "running"]
    /\ active_sessions' = s
    /\ stream_pc' = [stream_pc EXCEPT ![s] = "streaming"]
    /\ UNCHANGED <<stop_pc, stop_task>>
    /\ SessionsUnchanged

\* the execution of stream s ends
TaskDone(s) ==
    /\ stream_task[s] = "running"
    /\ stream_task' = [stream_task EXCEPT ![s] = "done"]
    /\ UNCHANGED <<active_sessions, stream_pc, stop_pc, stop_task>>
    /\ SessionsUnchanged

\* the generator leaves its loop after the completion event or after it
\* has found the task cancelled or done
StreamLeavesLoop(s) ==
    /\ stream_pc[s] = "streaming"
    /\ stream_task[s] \in {"done", "cancelled"}
    /\ stream_pc' = [stream_pc EXCEPT ![s] = "finishing"]
    /\ UNCHANGED <<active_sessions, stream_task, stop_pc, stop_task>>
    /\ SessionsUnchanged

\* the end of the finally block, after the session totals are updated
StreamCleanUp(s) ==
    /\ stream_pc[s] = "finishing"
    /\ active_sessions' = None
    /\ stream_pc' = [stream_pc EXCEPT ![s] = "done"]
    /\ UNCHANGED <<stream_task, stop_pc, stop_task>>
    /\ SessionsUnchanged

\* stop_chat up to its await of the cancelled task, or to its return when
\* there is no entry or the task is done
StopChat ==
    /\ stop_pc = "idle"
    /\ stream_task' = CancelRegistered
    /\ IF active_sessions # None /\ stream_task[active_sessions] = "running"
         THEN /\ stop_pc' = "await"
              /\ stop_task' = active_sessions
              /\ UNCHANGED active_sessions
         ELSE /\ stop_pc' = "idle"
              /\ stop_task' = None
              /\ active_sessions' = None
    /\ UNCHANGED stream_pc
    /\ SessionsUnchanged

\* stop_chat after the await: the entry is deleted (KeyError if there is
\* none)
StopDelete ==
    /\ stop_pc = "await"
    /\ active_sessions' = None
    /\ stop_pc' = "idle"
    /\ stop_task' = None
    /\ UNCHANGED <<stream_pc, stream_task>>
    /\ SessionsUnchanged

NextSessions ==
    \/ \E s \in StreamIds : StreamStart(s)
    \/ \E s \in StreamIds : StreamRegister(s)
    \/ \E s \in StreamIds : TaskDone(s)
    \/ \E s \in StreamIds : StreamLeavesLoop(s)
    \/ \E s \in StreamIds : StreamCleanUp(s)
    \/ StopChat
    \/ StopDelete

SpecSessions == InitSessions /\ [][NextSessions]_vars

-----------------------------------------------------------------------------
(* Vocabulary of the properties *)

N == config.max_steps
Threshold == config.stuck_detection_threshold
MaxRecoveryAttempts == config.max_recovery_attempts

RecoveryReasonings ==
    {"Recovery: Long press instead of tap", "Recovery: Go back to reset state",
     "Recovery: Go back after stuck swipe", "Recovery: Navigate back to unstick",
     "Recovery: Go to home screen to reset"}

IsRecoveryStep(step) == step.action.reasoning \in RecoveryReasonings
LLMSteps(s) == {i \in 1..Len(s) : ~IsRecoveryStep(s[i])}
DeviceSteps(s) == {i \in 1..Len(s) : s[i].action.type \in DeviceKinds}
LastStep == steps[Len(steps)]
IsErrorResult(result) == "error" \in DOMAIN result

LastN(w, n) == IF Len(w) > n THEN SubSeq(w, Len(w) - n + 1, Len(w)) ELSE w
Uniform(w) == \A i, j \in 1..Len(w) : w[i] = w[j]

\* a step of execute_task in which get_state returned a state
Sampled == pc = "sample" /\ raised' = None
\* the fingerprint window after the observation of that state
ObservedWindow == LastN(Append(screenshot_history, state'), Threshold)
WindowFullAndUniform == Len(ObservedWindow) = Threshold /\ Uniform(ObservedWindow)

NoTerminalAction == \A i \in 1..Len(steps) : steps[i].action.type \notin {"done", "fail"}
EndedStuck == pc = "returned" /\ returned.error = StuckError(step_number)
TimedOut ==
    /\ step_number = N
    /\ Len(returned.steps) = N
    /\ ~returned.success
    /\ returned.error = "Task did not complete within " \o ToString(N) \o " steps"

NotJson(text) == ~JsonLoads(ExtractJson(text)).ok
UnknownKind(text) ==
    LET r == JsonLoads(ExtractJson(text))
    IN r.ok /\ r.is_dict /\ Lower(Get(r.value, "action", "")) \notin ActionType

-----------------------------------------------------------------------------
(* Properties *)

C2_AsStated ==
    (pc = "returned" /\ from_llm /\ action.type \in {"done", "fail"}) =>
        /\ returned.steps = steps
        /\ LastStep.action = action
        /\ action.type = "done" =>
              (returned.success /\ returned.result = action.params.result)
        /\ action.type = "fail" =>
              (~returned.success /\ returned.error = action.params.reason)

\* C3 as stated: in a step whose observation makes the window full and
\* uniform while recovery budget remains, the action to record is the recovery
\* planner's and the LLM is not consulted (history and tokens unchanged).
C3_AsStated ==
    [][ (Sampled /\ WindowFullAndUniform /\ recovery_attempts < MaxRecoveryAttempts)
          => /\ pc' = "execute"
             /\ ~from_llm'
             /\ action'.reasoning \in RecoveryReasonings
             /\ llm_calls' = llm_calls
             /\ history' = history
             /\ total_tokens' = total_tokens ]_vars

\* C4 as stated: in a step whose observation makes the window full and
\* uniform with the recovery budget exhausted, the execution returns
\* success = false with the stuck error, without consulting the LLM.
C4_AsStated ==
    [][ (Sampled /\ WindowFullAndUniform /\ recovery_attempts = MaxRecoveryAttempts)
          => /\ pc' = "returned"
             /\ ~returned'.success
             /\ returned'.error = StuckError(step_number) ]_vars

\* C5: when the LLM call raises at step k, the execution returns success =
\* false with the error carrying the exception's message and the k-1 records
\* of the earlier steps; the failed call was issued once and no device action
\* was issued in step k.
C5_LLMErrorEndsExecution ==
    (pc = "returned" /\ raised = "llm") =>
        /\ ~returned.success
        /\ returned.error = StepFailed(step_number, "Connection error.")
        /\ returned.steps = steps
        /\ Len(steps) = step_number - 1
        /\ \A i \in 1..Len(steps) : steps[i].step_number = i
        /\ llm_calls = Cardinality(LLMSteps(steps)) + 1
        /\ device_calls = Cardinality(DeviceSteps(steps))

C5_Witness ==
    /\ pc = "returned"
    /\ raised = "llm"
    /\ step_number = 3
    /\ Len(returned.steps) = 2

\* C6: a response that is not valid JSON after fence and brace extraction is
\* decoded, without an exception, into a fail action carrying the parser's
\* diagnostic; that action is recorded and the execution ends with
\* success = false at that step.
C6_NonJsonBecomesFail ==
    (response_text # <<>> /\ NotJson(response_text)) =>
        /\ raised \in {None, "on_step"}
        /\ from_llm
        /\ action = [type |-> "fail", params |-> [reason |-> JSONDecodeError],
                     reasoning |-> ""]
        /\ pc \in {"execute", "notify", "returned"}
        /\ pc = "returned" =>
              /\ ~returned.success
              /\ LastStep.action = action
              /\ LastStep.step_number = step_number

C6_Witness ==
    /\ pc = "returned"
    /\ response_text = <<"~~~json", "{", "tap">>
    /\ returned.error = JSONDecodeError
    /\ step_number = 2

\* C7 as stated: a response that decodes to a JSON object whose action kind
\* is missing or unknown raises nothing and yields a fail action with a
\* diagnostic, which is recorded; the execution ends with success = false and
\* that diagnostic as error.
C7_AsStated ==
    (response_text # <<>> /\ UnknownKind(response_text)) =>
        /\ raised = None
        /\ action.type = "fail"
        /\ pc = "returned" =>
              /\ ~returned.success
              /\ LastStep.action = action
              /\ returned.error = action.params.reason

\* C8: executing an action never ends the execution: the StepRecord is
\* appended, with an error result when the device raised, and after a step
\* with an error result the loop goes on to the next step (or to the
\* max-steps result after the last step) unless on_step raises.
C8_DeviceErrorIsRecorded ==
    [][ /\ pc = "execute" =>
              /\ pc' = "notify"
              /\ returned' = NoResult
              /\ steps' = Append(steps, steps'[Len(steps')])
              /\ steps'[Len(steps')].action = action
              /\ steps'[Len(steps')].step_number = step_number
        /\ (pc = "notify" /\ IsErrorResult(LastStep.result) /\ raised' = None) =>
              /\ LastStep.action.type \in DeviceKinds
              /\ pc' = "sleep"
        /\ (pc = "sleep" /\ IsErrorResult(LastStep.result)) =>
              /\ step_number < N => (pc' = "sample" /\ step_number' = step_number + 1)
              /\ step_number = N => (pc' = "returned" /\ returned'.error = MaxStepsError(N))
      ]_vars

C8_Witness ==
    /\ pc = "notify"
    /\ Len(steps) = 3
    /\ steps[1].action.type = "tap" /\ steps[1].result = [error |-> "device offline"]
    /\ steps[2].action.type = "swipe" /\ steps[2].result = [error |-> "device offline"]

\* C9 as stated: every returned AgentResult holds all StepRecords appended so
\* far, and its error is not None when success is false.
C9_AsStated ==
    pc = "returned" =>
        /\ returned.steps = steps
        /\ ~returned.success => returned.error # None

\* C10: an observation reports stuck exactly when the window, after the
\* append and the trim to the threshold, is full and uniform and
\* recovery_attempts is below max_recovery_attempts; the window never holds
\* more than threshold fingerprints.
C10_StuckIffFullUniformWithinBudget ==
    [][ /\ Len(screenshot_history') <= Threshold
        /\ Sampled =>
              /\ screenshot_history' = ObservedWindow
              /\ is_stuck' <=> (/\ WindowFullAndUniform
                                /\ recovery_attempts < MaxRecoveryAttempts)
      ]_vars

C10_Witness ==
    /\ pc = "llm"
    /\ ~is_stuck
    /\ Len(screenshot_history) = Threshold
    /\ Uniform(screenshot_history)
    /\ recovery_attempts = MaxRecoveryAttempts
    /\ Threshold = 2
    /\ step_number = 3

\* C11: within one execution an observation whose window holds more than one
\* distinct fingerprint leaves recovery_attempts at 0; an observation whose
\* window is uniform leaves it as it was (the planner's own increment of a
\* stuck verdict aside); and recovery_attempts is lowered by nothing but an
\* observation of a window that is not uniform.
C11_ResetOnlyByScreenChange ==
    [][ /\ (Sampled /\ ~Uniform(ObservedWindow)) => recovery_attempts' = 0
        /\ (Sampled /\ Uniform(ObservedWindow)) =>
              recovery_attempts' = recovery_attempts + (IF is_stuck' THEN 1 ELSE 0)
        /\ recovery_attempts' < recovery_attempts =>
              (Sampled /\ ~Uniform(ObservedWindow))
      ]_vars

C11_Witness ==
    /\ pc = "llm"
    /\ recovery_attempts = 0
    /\ ~Uniform(screenshot_history)
    /\ Len(steps) = 2
    /\ IsRecoveryStep(steps[2])

\* C12: the action _get_recovery_action returns is determined by the kind of
\* the last recorded action and the counter after its increment: last tap and
\* attempt 1 give the same tap with duration 1000; last tap and attempt 2 give
\* back; a last swipe gives back at any attempt; any other last action, or
\* none, gives back at attempt 1 and home at attempt 2.  Every returned action
\* carries a reasoning that marks it as a recovery.
C12_PlanTable ==
    pc = "planned" =>
      LET last_kind == IF Len(steps) = 0 THEN None ELSE LastStep.action.type
          attempt == recovery_attempts
      IN /\ (last_kind = "tap" /\ attempt = 1) =>
               /\ action.type = "tap"
               /\ action.params.x = LastStep.action.params.x
               /\ action.params.y = LastStep.action.params.y
               /\ action.params.duration = "1000"
         /\ (last_kind = "tap" /\ attempt = 2) => action.type = "back"
         /\ last_kind = "swipe" => action.type = "back"
         /\ (last_kind \notin {"tap", "swipe"} /\ attempt = 1) => action.type = "back"
         /\ (last_kind \notin {"tap", "swipe"} /\ attempt = 2) => action.type = "home"
         /\ action.type \in {"back", "home"} => action.params = <<>>
         /\ action # NoAction => action.reasoning \in RecoveryReasonings

C12_Witness ==
    /\ pc = "planned"
    /\ Len(steps) = 2
    /\ LastStep.action.type = "swipe"
    /\ recovery_attempts = 3
    /\ action.type = "back"

\* C13 as stated: whenever the loop asks the planner, the planner returns an
\* action if the counter after its increment is at most max_recovery_attempts
\* and the recovery step is executed; it returns nothing if the counter is
\* greater, and the execution then ends as failed.
C13_AsStated ==
    [][ (Sampled /\ is_stuck') =>
          IF recovery_attempts' <= MaxRecoveryAttempts
            THEN /\ pc' = "execute"
                 /\ action'.reasoning \in RecoveryReasonings
            ELSE /\ pc' = "returned"
                 /\ ~returned'.success
      ]_vars

\* the control state of the execution: Recovering while the planner's action
\* is executed, recorded and notified; Running in every other position of the
\* loop, the sleep and the loop head after a recovery step included
Control ==
    IF pc = "returned"
      THEN IF returned.success THEN "Done"
           ELSE IF returned.error = "Task did not complete within " \o ToString(N) \o " steps"
             THEN "TimedOut"
           ELSE "Failed"
    ELSE IF pc \in {"execute", "notify"} /\ ~from_llm THEN "Recovering"
    ELSE "Running"

\* C14: the control state moves only along Running -> {Running, Recovering,
\* Done, Failed, TimedOut} and Recovering -> {Running, Failed} (a step inside
\* the recovery leaves it Recovering); Done, Failed and TimedOut are kept: once the result is returned nothing is sampled, no LLM call is made, no
\* action is executed, no StepRecord is appended and on_step is not called.
C14_ControlStates ==
    [][ /\ Control = "Recovering" => Control' \in {"Recovering", "Running", "Failed"}
        /\ Control \in {"Done", "Failed", "TimedOut"} =>
              /\ Control' = Control
              /\ returned' = returned
              /\ <<state, screenshot_history>>' = <<state, screenshot_history>>
              /\ <<llm_calls, history>>' = <<llm_calls, history>>
              /\ device_calls' = device_calls
              /\ steps' = steps
              /\ on_step_calls' = on_step_calls
      ]_vars

C14_Witness ==
    /\ Control = "TimedOut"
    /\ Len(steps) = 3
    /\ ~IsRecoveryStep(steps[1])
    /\ IsRecoveryStep(steps[3])

\* C15 as stated: a cancellation takes effect only at a step boundary, before
\* the next sampling: no device command is issued by an action that is then
\* left unfinished, the StepRecords are kept, and the execution returns a
\* result with success = false holding them.
C15_AsStated ==
    [][ (pc # "cancelled" /\ pc' = "cancelled") =>
          /\ pc = "sleep"
          /\ device_calls' = device_calls
          /\ steps' = steps
          /\ returned' # NoResult
          /\ ~returned'.success
          /\ returned'.steps = steps
      ]_vars

\* C16 as stated: a raising on_step leaves the execution as it would be had
\* the callback succeeded: the StepRecord stays, a done or fail action ends
\* the execution with its own result, any other action lets the loop go on,
\* and no result reports the callback's error.
C16_AsStated ==
    [][ pc = "notify" =>
          /\ steps' = steps
          /\ Continues => (pc' = "sleep" /\ returned' = NoResult)
          /\ ~Continues =>
                /\ pc' = "returned"
                /\ returned'.success <=> action.type = "done"
                /\ returned'.steps = steps
                /\ returned'.error # StepFailed(step_number, "callback failed")
      ]_vars

\* C17 as stated: the history and the token counter an execution sees hold
\* only its own turns and tokens: the first request of an execution holds its
\* first user turn and nothing else, every request holds turns of that
\* execution only, and the total_tokens of its result are the tokens of its
\* own LLM calls, whatever another execution on the agent does meanwhile.
C17_AsStated ==
    \A t \in DOMAIN tasks :
        /\ \A i \in 1..Len(tasks[t].messages) : tasks[t].messages[i].task = t
        /\ (tasks[t].pc = "await" /\ tasks[t].step_number = 1) =>
              Len(tasks[t].messages) = 1
        /\ tasks[t].pc = "returned" =>
              tasks[t].result_total_tokens = tasks[t].calls * TokensPerCall

NoDuplicates(seq) == \A i, j \in 1..Len(seq) : i # j => seq[i] # seq[j]
HasCredential(i) == integrations[i].api_key_encrypted \notin {None, ""}

\* C18: for every table of integrations and every fallback graph, cycles
\* included, the walk of the chain ends: each call of
\* _build_config_with_fallback either returns or adds an integration not
\* visited before, of which there are finitely many; _decrypt_api_key is
\* called at most once per integration; and when no integration reached has
\* a key the resolver returns no configuration and caches nothing.
C18_ChainTerminates ==
    [][ /\ NoDuplicates(decrypt_calls')
        /\ visited_ids' \subseteq IntegrationIds
        /\ rpc = "build" =>
              \/ rpc' = "done"
              \/ /\ visited_ids \subseteq visited_ids'
                 /\ Cardinality(visited_ids') = Cardinality(visited_ids) + 1
        /\ (rpc = "build" /\ rpc' = "done"
              /\ \A i \in visited_ids' : ~HasCredential(i)) =>
              /\ resolved' = NoConfig
              /\ config_cache' = config_cache
      ]_vars

C18_Witness ==
    /\ rpc = "done"
    /\ resolved = NoConfig
    /\ Len(decrypt_calls) = 3
    /\ visited_ids = IntegrationIds
    /\ integrations[decrypt_calls[3]].fallback_integration_id = decrypt_calls[1]

\* C19: on a cache miss get_integration_config starts from an integration
\* that is active, default and of the requested purpose, of the highest
\* priority among those and, among those of that priority, of the earliest
\* created_at; if there is none it starts from an active default integration
\* of any purpose; if there is none either it returns no configuration.
C19_StartingIntegration ==
    [][ (rpc \in {"idle", "done"} /\ config_cache[purpose'] = NoConfig) =>
          LET candidates == {i \in IntegrationIds :
                                integrations[i].is_default /\ integrations[i].active}
              scoped == {i \in candidates : integrations[i].purpose = purpose'}
              chosen == integrations[integration']
          IN /\ scoped # {} =>
                  /\ rpc' = "build"
                  /\ integration' \in scoped
                  /\ \A j \in scoped :
                        \/ chosen.priority > integrations[j].priority
                        \/ /\ chosen.priority = integrations[j].priority
                           /\ chosen.created_at <= integrations[j].created_at
             /\ (scoped = {} /\ candidates # {}) =>
                  /\ rpc' = "build"
                  /\ integration' \in candidates
             /\ candidates = {} =>
                  /\ rpc' = "done"
                  /\ resolved' = NoConfig
      ]_vars

C19_Witness ==
    /\ rpc = "build"
    /\ decrypt_calls = <<>>
    /\ integrations[integration].purpose = purpose
    /\ \E j \in IntegrationIds \ {integration} :
          /\ integrations[j].purpose = purpose
          /\ integrations[j].is_default /\ integrations[j].active
          /\ integrations[j].priority = integrations[integration].priority
          /\ integrations[j].created_at > integrations[integration].created_at
    /\ \E j \in IntegrationIds :
          /\ integrations[j].purpose # purpose
          /\ integrations[j].is_default /\ integrations[j].active
          /\ integrations[j].priority > integrations[integration].priority

RECURSIVE ChainFirst(_, _)
\* the first integration with a key on the fallback chain from i, or None if
\* the chain ends or comes back to an integration in seen before one is found
ChainFirst(i, seen) ==
    IF i \in seen THEN None
    ELSE IF HasCredential(i) THEN i
    ELSE IF integrations[i].fallback_integration_id \notin IntegrationIds THEN None
    ELSE ChainFirst(integrations[i].fallback_integration_id, seen \cup {i})

\* C20: a resolution that walked the chain returns the configuration of the
\* first integration with a non-empty key on the chain from the selected
\* integration, and no configuration only if the chain ends or cycles before
\* one; every configuration returned or cached has a non-empty key.
C20_FirstCredentialOnChain ==
    /\ (rpc = "done" /\ decrypt_calls # <<>>) =>
          LET first == ChainFirst(decrypt_calls[1], {})
          IN IF first = None
               THEN resolved = NoConfig
               ELSE /\ resolved.integration_id = first
                    /\ resolved.api_key = integrations[first].api_key_encrypted
    /\ resolved # NoConfig => resolved.api_key \notin {None, ""}
    /\ \A p \in DOMAIN config_cache :
          config_cache[p] # NoConfig => config_cache[p].api_key \notin {None, ""}
    /\ (rpc = "done" /\ resolved # NoConfig) => config_cache[purpose] = resolved

C20_Witness ==
    /\ rpc = "done"
    /\ Len(decrypt_calls) = 3
    /\ integrations[decrypt_calls[1]].api_key_encrypted = ""
    /\ integrations[decrypt_calls[2]].api_key_encrypted = None
    /\ resolved.integration_id = decrypt_calls[3]
    /\ config_cache[purpose] = resolved

\* C28: in every state of an execution 0 <= recovery_attempts <=
\* max_recovery_attempts; whenever the LLM is consulted recovery_attempts is 0
\* or max_recovery_attempts, the latter only with a full uniform window; and
\* a user turn carries the recovery note only with the number
\* max_recovery_attempts.
C28_AttemptsWithinBudget ==
    /\ recovery_attempts \in 0..MaxRecoveryAttempts
    /\ pc = "llm" =>
          \/ recovery_attempts = 0
          \/ /\ recovery_attempts = MaxRecoveryAttempts
             /\ Len(screenshot_history) = Threshold
             /\ Uniform(screenshot_history)
    /\ \A i \in 1..Len(history) :
          (history[i].role = "user" /\ Len(history[i].content) > 1) =>
              history[i].content[2] =
                  "recovery attempt #" \o ToString(MaxRecoveryAttempts)

C28_Witness ==
    /\ pc = "execute"
    /\ from_llm
    /\ MaxRecoveryAttempts = 2
    /\ recovery_attempts = 2
    /\ Len(history) = 2
    /\ history[1].content = <<"Step 3", "recovery attempt #2">>

\* the step numbers of the StepRecords whose action the LLM chose, in order
RECURSIVE LLMStepNumbers(_)
LLMStepNumbers(s) ==
    IF s = <<>> THEN <<>>
    ELSE IF IsRecoveryStep(s[Len(s)])
      THEN LLMStepNumbers(SubSeq(s, 1, Len(s) - 1))
    ELSE Append(LLMStepNumbers(SubSeq(s, 1, Len(s) - 1)), s[Len(s)].step_number)

\* the history is one user turn then one assistant turn for each of the
\* step numbers in numbers, in that order
HistoryMatches(numbers) ==
    /\ Len(history) = 2 * Len(numbers)
    /\ \A k \in 1..Len(numbers) :
          /\ history[2 * k - 1].role = "user"
          /\ history[2 * k - 1].content[1] = "Step " \o ToString(numbers[k])
          /\ history[2 * k].role = "assistant"

\* C29 as stated: at every point of an execution the history holds exactly
\* one user turn and one assistant turn per StepRecord whose action the LLM
\* chose, in step order.
C29_AsStated == HistoryMatches(LLMStepNumbers(steps))

\* C29 amended: the same at every point but one: while the action the LLM
\* has just chosen is being executed its two turns are in the history and its
\* StepRecord is not yet appended.  Recovery steps append nothing, and a step
\* whose LLM call or decoding raised appends nothing.
C29_TwoTurnsPerLLMStep ==
    IF pc = "execute" /\ from_llm
      THEN HistoryMatches(Append(LLMStepNumbers(steps), step_number))
      ELSE HistoryMatches(LLMStepNumbers(steps))

C29_Witness ==
    /\ pc = "returned"
    /\ raised = "from_dict"
    /\ Len(steps) = 2
    /\ IsRecoveryStep(steps[2])
    /\ ~IsRecoveryStep(steps[1])
    /\ Len(history) = 2

\* C30 as stated: get_integration_config never returns or caches a
\* configuration built from an integration that is not active, be it the
\* integration the queries selected or one reached through the fallback
\* chain.
C30_AsStated ==
    [][ (rpc = "build" /\ rpc' = "done" /\ resolved' # NoConfig) =>
          /\ integrations[resolved'.integration_id].active
          /\ integrations[config_cache'[purpose].integration_id].active
      ]_vars

\* a step in which get_integration_config is called
ResolveCall ==
    /\ rpc \in {"idle", "done"}
    /\ purpose' \in Purposes
    /\ now' = now /\ updates' = updates /\ integrations' = integrations

\* C21: a configuration resolved for a purpose is cached for five minutes:
\* a call for that purpose up to the expiry time returns the cached
\* configuration without a query, the first call after it removes the entry
\* and queries again, and a call that finds nothing caches nothing
C21_CachedForTtl ==
    [][ /\ (rpc = "build" /\ rpc' = "done" /\ resolved' # NoConfig) =>
              /\ config_cache'[purpose] = resolved'
              /\ cache_expires'[purpose] = now + 5
        /\ (ResolveCall /\ config_cache[purpose'] # NoConfig
                        /\ now <= cache_expires[purpose']) =>
              /\ rpc' = "done"
              /\ resolved' = config_cache[purpose']
              /\ queries' = 0
              /\ config_cache' = config_cache
              /\ cache_expires' = cache_expires
        /\ (ResolveCall /\ config_cache[purpose'] # NoConfig
                        /\ now > cache_expires[purpose']) =>
              /\ queries' >= 1
              /\ config_cache'[purpose'] = NoConfig
              /\ cache_expires'[purpose'] = NoExpiry
        /\ (rpc' = "done" /\ resolved' = NoConfig) =>
              config_cache'[purpose'] = NoConfig ]_vars

\* a call answered from the cache in the last minute of the entry
C21_Witness ==
    /\ rpc = "done" /\ resolved # NoConfig /\ queries = 0
    /\ now = cache_expires[purpose] /\ now = CacheTtl

\* C22 as stated: a change of an integration or of its provider's key
\* empties the cache, so a call answered without a query returns a
\* configuration of an integration that is active and holds that key now
C22_AsStated ==
    [][ /\ (integrations' # integrations) =>
              \A p \in Purposes : config_cache'[p] = NoConfig
        /\ (ResolveCall /\ rpc' = "done" /\ resolved' # NoConfig) =>
              /\ integrations[resolved'.integration_id].active
              /\ integrations[resolved'.integration_id].api_key_encrypted
                    = resolved'.api_key ]_vars

\* a float that is not a number of the interval [0.0, 1.0]
Outside(p) == p.nan \/ p.v < 0 \/ p.v > Scale
\* the device calls of the log
DeviceEvents == {i \in 1..Len(ex_log) : ex_log[i].kind # "warning"}
\* the n-th conversion logged a warning before any device call
WarnedBefore(n) ==
    \E i \in 1..Len(ex_log) :
        /\ ex_log[i].kind = "warning" /\ ex_log[i].call = n
        /\ \A j \in DeviceEvents : i < j
PixelsOnScreen ==
    \A i \in DeviceEvents :
        /\ ex_log[i].x1 \in 0..screen.width /\ ex_log[i].x2 \in 0..screen.width
        /\ ex_log[i].y1 \in 0..screen.height /\ ex_log[i].y2 \in 0..screen.height

\* C23 as stated: after a tap, double_tap or swipe every pixel coordinate
\* sent to the device is on the screen, and every conversion with an
\* input coordinate outside [0.0, 1.0] logged a warning first
C23_AsStated ==
    ex_pc = "done" =>
        /\ DeviceEvents # {} /\ PixelsOnScreen
        /\ (Outside(ex_action.x1) \/ Outside(ex_action.y1)) => WarnedBefore(1)
        /\ (Outside(ex_action.x2) \/ Outside(ex_action.y2)) => WarnedBefore(2)

\* a step of ProfileService.update from its call to its end
Updated == pf_pc = "ready" /\ pf_pc' = "done"
\* the request changes the name or the fingerprint
ChangesIdentity == pf_data.name # None \/ pf_data.fingerprint # None

StepMessages == {i \in 1..Len(messages) : messages[i].role = "step"}

\* C25 as stated: once the completion message is saved, every step the
\* agent took has exactly one STEP message, saved before the completion
\* message
C25_AsStated ==
    \A c \in 1..Len(messages) :
        messages[c].role = "assistant" =>
            /\ Cardinality(StepMessages) = Len(steps)
            /\ \A i \in StepMessages : i < c
            /\ \A k \in 1..Len(steps) :
                  Cardinality({i \in StepMessages :
                      messages[i].step_number = steps[k].step_number}) = 1

\* C26 as stated: a task whose status is CANCELLED is not set to RUNNING,
\* COMPLETED or FAILED, and the agent is not run for it
C26_AsStated ==
    [][ task_status = "cancelled" =>
          /\ task_status' \notin {"running", "completed", "failed"}
          /\ agent_runs' = agent_runs ]_vars

\* C27 as stated: the task of every stream whose execution is in progress
\* is the one registered under the key, and a stream that finishes removes
\* no registration but its own
C27_AsStated ==
    [][ /\ \A s \in StreamIds :
              (stream_pc'[s] = "streaming" /\ stream_task'[s] = "running") =>
                  active_sessions' = s
        /\ \A s \in StreamIds :
              (stream_pc[s] = "finishing" /\ stream_pc'[s] = "done"
                 /\ active_sessions \notin {s, None}) =>
                  active_sessions' = active_sessions ]_vars

=============================================================================
